---- MODULE Spec2Model ----
(***************************************************************************)
(* Model of the Salesforce report exporter (src/exporter.py and others).   *)
(*                                                                         *)
(*   SpecSafe   safe_filename applied once and twice to a drawn name       *)
(*   SpecRetry  one call of retry_request against a scripted server        *)
(*   Spec       one run of export_all_reports_to_zip                       *)
(*   SpecLogin  one call of SalesforceAuth.login (src/salesforce_auth.py)  *)
(*   SpecList   one call of list_reports on a drawn listing body           *)
(*   SpecFolders  the GUI loading the report folders (src/main.py)         *)
(*   SpecCsv    one run over one report, the export answered with any body *)
(*   SpecProgress  runs with and without callback, raising or not, delay   *)
(*   SpecScope  runs started by the GUI's workers: all, a folder, selected *)
(*   SpecRetryFair  SpecRetry with the call running on                     *)
(*   SpecGui    the main window: clicks, worker threads, queued signals    *)
(*   SpecGuiFair  SpecGui with threads that end and signals that arrive    *)
(*                                                                         *)
(* Text is a sequence of one-character strings; a response body is a       *)
(* sequence of tokens (see the body section).                              *)
(***************************************************************************)
EXTENDS Integers, Sequences, FiniteSets, TLC

VARIABLES
    \* ---- safe_filename harness
    sf_pc,          \* "start" | "once" | "twice"
    sf_name,        \* the name drawn
    sf_once,        \* safe_filename(name)
    sf_twice,       \* safe_filename(safe_filename(name))
    \* ---- retry_request
    rr_pc,          \* "idle" | "request" | "returned" | "raised"
    max_retries,    \* argument max_retries
    attempt,        \* loop variable of `for attempt in range(max_retries)`
    backoff,        \* local backoff
    last_error,     \* local last_error
    rr_requests,    \* statuses / exceptions seen, one per requests.get call
    rr_sleeps,      \* argument of every time.sleep call, in order
    rr_after,       \* what happened right after the latest response
    rr_result,      \* what the call returned or raised
    \* ---- export_all_reports_to_zip
    pc,             \* position in the run
    catalog,        \* what the listing request will answer
    scope,          \* the entry point called and its argument
    os_linesep,     \* os.linesep of the platform the run is on
    callback_raises, \* the progress_callback calls (by number) that raise
    has_callback,   \* self.progress_callback is set
    delay,          \* argument delay_between_reports
    tmp_exists,     \* the working directory exists on disk
    tmp_files,      \* working directory: filename -> content
    reports,        \* local reports
    total,          \* local total
    completed,      \* local completed
    successful,     \* local successful
    failed,         \* local failed
    used_filenames, \* local used_filenames: base name -> count
    assigned,       \* filename given to each report, in catalog order
    engine_calls,   \* number of export_report_csv calls
    engine_log,     \* per call: what lines 255-262 made of the answer
    progress_calls, \* arguments of every progress_callback call, in order
    delay_sleeps,   \* number of inter-report time.sleep calls
    steps,          \* the loop's writes, callback calls and sleeps, in order
    zip_file,       \* destination path: "absent" | "partial" | "complete"
    zip_entries,    \* names written to the destination ZIP, in order
    zip_summary,    \* the summary text written to the ZIP
    pending,        \* result or exception on its way through `finally`
    outcome,        \* what the caller got
    cleanup_tried,  \* shutil.rmtree has been called
    trace,          \* phases entered, in order
    \* ---- SalesforceAuth.login
    lg_pc,          \* "idle" | "start" | "discover" | "returned" | "raised"
    lg_domain,      \* argument domain
    lg_url,         \* local base_url
    lg_answer,      \* what the login POST produced
    lg_session,     \* the dict login builds and returns
    lg_error,       \* the exception login raised
    lg_gets,        \* what every version-discovery GET produced, in order
    lg_self_version, \* self.api_version
    \* ---- list_reports
    ls_pc,          \* "idle" | "start" | "returned" | "raised"
    ls_answer,      \* what the listing request produced
    ls_result,      \* what list_reports returned
    ls_error,       \* the exception list_reports raised
    \* ---- report folders
    fd_pc,          \* "idle" | "start" | "emitted" | "error" | "shown"
    fd_org,         \* the report folders of the org
    fd_listed,      \* what list_report_folders returned
    fd_available,   \* self.available_folders
    fd_error,       \* what folders_error was emitted with
    \* ---- the main window
    session_info,   \* NONE | "session"
    output_zip,     \* NONE | "path"
    export_running, \* self._export_running
    available_reports, \* the ids of self.available_reports
    selected_reports,  \* self.selected_reports
    checkboxes,     \* the checkboxes in reports_layout: id -> checked
    current_tab,    \* export_tabs.currentIndex(): 0 folder, 1 selected
    folder_combo,   \* folder_combo.currentData()
    folder_items,   \* the data of the items of folder_combo
    folder_combo_enabled,
    start_btn,      \* enabled?
    login_btn,      \* enabled? (with choose_btn and the credential inputs)
    refresh_folders_btn,
    refresh_reports_btn, \* enabled? (with select_all_btn, deselect_all_btn)
    export_tabs,    \* enabled?
    login_threads,  \* _login_worker threads running
    folders_threads, \* _load_folders_worker threads running
    reports_threads, \* _load_reports_worker threads running
    export_threads, \* what each running export thread was started with
    signal_queue    \* signals emitted and not yet handled, oldest first

safeVars == <<sf_pc, sf_name, sf_once, sf_twice>>

retryVars ==
    <<rr_pc, max_retries, attempt, backoff, last_error, rr_requests,
      rr_sleeps, rr_after, rr_result>>

runVars ==
    <<pc, catalog, scope, os_linesep, callback_raises, has_callback, delay, tmp_exists, tmp_files, reports, total,
      completed, successful, failed, used_filenames, assigned, engine_calls,
      engine_log, progress_calls, delay_sleeps, steps, zip_file, zip_entries,
      zip_summary, pending,
      outcome, cleanup_tried, trace>>

authVars ==
    <<lg_pc, lg_domain, lg_url, lg_answer, lg_session, lg_error, lg_gets,
      lg_self_version>>

listVars == <<ls_pc, ls_answer, ls_result, ls_error>>

folderVars == <<fd_pc, fd_org, fd_listed, fd_available, fd_error>>

guiVars ==
    <<session_info, output_zip, export_running, available_reports,
      selected_reports, checkboxes, current_tab, folder_combo, folder_items,
      folder_combo_enabled, start_btn, login_btn, refresh_folders_btn,
      refresh_reports_btn, export_tabs, login_threads, folders_threads,
      reports_threads, export_threads, signal_queue>>

vars ==
    <<safeVars, retryVars, runVars, authVars, listVars, folderVars, guiVars>>

(***************************************************************************)
(* Bounds of the model.                                                    *)
(***************************************************************************)
MaxTail == 3        \* longest drawn tail of a name (SpecSafe)
MaxReports == 3     \* longest catalog (Spec)
MaxListed == 2      \* longest list in a listing body (SpecList)
MaxFolders == 2     \* most report folders in the org (SpecFolders)
MaxRetriesArg == 3  \* largest max_retries drawn (SpecRetry)
MaxBody == 3        \* most tokens in a drawn response body (SpecCsv)
MaxGuiReports == 1  \* most reports the org lists to the GUI (SpecGui)
MaxPending == 1     \* most loads in flight when a click starts one (SpecGui)

(***************************************************************************)
(* Text helpers.                                                           *)
(***************************************************************************)
Min(a, b) == IF a <= b THEN a ELSE b

\* c.isalnum() on the characters the model draws
AlnumChars ==
    {"a", "b", "c", "d", "e", "f", "g", "h", "i", "j", "k", "l", "m", "n", "o",
     "p", "q", "r", "s", "t", "u", "v", "w", "x", "y", "z", "S",
     "0", "1", "2", "3", "4", "5", "6", "7", "8", "9"}

\* the characters safe_filename keeps besides alphanumerics: " ._-"
KeptChars == {" ", ".", "_", "-"}

\* the characters safe_filename strips from both ends: "_ "
StripChars == {"_", " "}

Digits == <<"0", "1", "2", "3", "4", "5", "6", "7", "8", "9">>

\* str(n) for n >= 0
RECURSIVE IntToStr(_)
IntToStr(n) ==
    IF n < 10 THEN <<Digits[n + 1]>>
    ELSE IntToStr(n \div 10) \o <<Digits[(n % 10) + 1]>>

\* "__" in s
HasDoubleUnderscore(s) ==
    \E i \in 1..(Len(s) - 1) : s[i] = "_" /\ s[i + 1] = "_"

\* the elements of s at the indices in keep, in order
Pick(s, keep) ==
    [k \in 1..Cardinality(keep) |->
        s[CHOOSE i \in keep : Cardinality({j \in keep : j <= i}) = k]]

\* s.replace("__", "_"): left to right, non-overlapping, so a run of
\* underscores loses its 2nd, 4th, ... underscore
ReplaceDoubleUnderscore(s) ==
    LET FirstOfRun(i) ==
            CHOOSE j \in 1..i :
                /\ \A k \in j..i : s[k] = "_"
                /\ (j = 1 \/ s[j - 1] # "_")
        dropped(i) == s[i] = "_" /\ (i - FirstOfRun(i) + 1) % 2 = 0
    IN Pick(s, {i \in 1..Len(s) : ~dropped(i)})

\* while "__" in safe: safe = safe.replace("__", "_")
RECURSIVE CollapseUnderscores(_)
CollapseUnderscores(s) ==
    IF HasDoubleUnderscore(s)
    THEN CollapseUnderscores(ReplaceDoubleUnderscore(s))
    ELSE s

\* s.strip(chars)
StripEnds(s, chars) ==
    LET keep == {i \in 1..Len(s) : s[i] \notin chars}
    IN IF keep = {} THEN <<>>
       ELSE LET lo == CHOOSE i \in keep : \A j \in keep : i <= j
                hi == CHOOSE i \in keep : \A j \in keep : j <= i
            IN SubSeq(s, lo, hi)

\* "unnamed_report"
UNNAMED_REPORT ==
    <<"u", "n", "n", "a", "m", "e", "d", "_", "r", "e", "p", "o", "r", "t">>

\* default of safe_filename's max_length
MAX_LENGTH == 100

\* the per-character map of safe_filename
SafeChar(c) == IF c \in AlnumChars \/ c \in KeptChars THEN c ELSE "_"

\* safe_filename(name, max_length); None and "" are both <<>>
safe_filename(name, max_length) ==
    IF name = <<>> THEN UNNAMED_REPORT
    ELSE LET mapped == [i \in 1..Len(name) |-> SafeChar(name[i])]
             stripped == StripEnds(CollapseUnderscores(mapped), StripChars)
         IN IF stripped # <<>>
            THEN SubSeq(stripped, 1, Min(max_length, Len(stripped)))
            ELSE UNNAMED_REPORT

(***************************************************************************)
(* SpecSafe: safe_filename on drawn names.                                 *)
(***************************************************************************)
NameChars == {"a", "_", " ", "/", "."}

\* every sequence over S of length at most n
SeqsUpTo(S, n) == UNION {[1..k -> S] : k \in 0..n}

\* n copies of "a"
Pad(n) == [i \in 1..n |-> "a"]

\* short names, and names whose tail straddles the length cap
SafeInputs ==
    {Pad(k) \o t : k \in {0, MAX_LENGTH - 2, MAX_LENGTH - 1},
                   t \in SeqsUpTo(NameChars, MaxTail)}

SafeIdle ==
    /\ sf_pc = "idle"
    /\ sf_name = <<>>
    /\ sf_once = <<>>
    /\ sf_twice = <<>>

SafeStart ==
    /\ sf_pc = "start"
    /\ sf_name \in SafeInputs
    /\ sf_once = <<>>
    /\ sf_twice = <<>>

SanitizeOnce ==
    /\ sf_pc = "start"
    /\ sf_once' = safe_filename(sf_name, MAX_LENGTH)
    /\ sf_pc' = "once"
    /\ UNCHANGED <<sf_name, sf_twice>>
    /\ UNCHANGED <<retryVars, runVars, authVars, listVars,
                 folderVars,
                 guiVars>>

SanitizeTwice ==
    /\ sf_pc = "once"
    /\ sf_twice' = safe_filename(sf_once, MAX_LENGTH)
    /\ sf_pc' = "twice"
    /\ UNCHANGED <<sf_name, sf_once>>
    /\ UNCHANGED <<retryVars, runVars, authVars, listVars,
                 folderVars,
                 guiVars>>

NextSafe == SanitizeOnce \/ SanitizeTwice

(***************************************************************************)
(* retry_request.                                                          *)
(***************************************************************************)
\* statuses the scripted server answers with
Statuses == {200, 204, 404, 429, 503}

\* `response.status_code in (429, 500, 502, 503, 504)`
RetryableStatuses == {429, 500, 502, 503, 504}

\* Retry-After header values; <<>> is an absent (or empty) header
RetryAfterValues ==
    {<<>>, <<"0">>, <<"2">>, <<"7", "0">>, <<"-", "1">>, <<"x">>}

\* exceptions requests.get raises
GetExceptions == {"Timeout", "ConnectionError"}

\* what one requests.get call can produce
Responses ==
    [kind : {"response"}, status : Statuses \ RetryableStatuses,
     retry_after : {<<>>}, exc : {"none"}]
    \cup
    [kind : {"response"}, status : Statuses \cap RetryableStatuses,
     retry_after : RetryAfterValues, exc : {"none"}]
    \cup
    [kind : {"exception"}, status : {0}, retry_after : {<<>>},
     exc : GetExceptions]

IsDigit(c) == \E i \in 1..10 : Digits[i] = c

DigitValue(c) == (CHOOSE i \in 1..10 : Digits[i] = c) - 1

RECURSIVE DigitsValue(_)
DigitsValue(s) ==
    IF s = <<>> THEN 0
    ELSE 10 * DigitsValue(SubSeq(s, 1, Len(s) - 1)) + DigitValue(s[Len(s)])

\* int(s): [ok, value]; ok = FALSE is ValueError
ParseInt(s) ==
    LET signed == s # <<>> /\ s[1] \in {"-", "+"}
        body == IF signed THEN Tail(s) ELSE s
    IN IF body # <<>> /\ \A i \in 1..Len(body) : IsDigit(body[i])
       THEN [ok |-> TRUE,
             value |-> IF signed /\ s[1] = "-" THEN 0 - DigitsValue(body)
                       ELSE DigitsValue(body)]
       ELSE [ok |-> FALSE, value |-> 0]

\* the cap of the backoff in the retryable-status branch
BACKOFF_CAP == 60

\* response.raise_for_status() raises HTTPError
RaisesForStatus(status) == status >= 400 /\ status < 600

\* the record kept of one requests.get call
Seen(r) ==
    [what |-> IF r.kind = "exception" THEN r.exc ELSE "status",
     status |-> r.status,
     retry_after |-> r.retry_after,
     sleeps_before |-> Len(rr_sleeps)]

RetryIdle ==
    /\ rr_pc = "idle"
    /\ max_retries = 0
    /\ attempt = 0
    /\ backoff = 1
    /\ last_error = "None"
    /\ rr_requests = <<>>
    /\ rr_sleeps = <<>>
    /\ rr_after = "none"
    /\ rr_result = [kind |-> "none", error |-> "None"]

\* lines 53-56: the call's locals before the loop
RetryStart ==
    /\ rr_pc = "request"
    /\ max_retries \in (0 - 1)..MaxRetriesArg
    /\ attempt = 0
    /\ backoff = 1
    /\ last_error = "None"
    /\ rr_requests = <<>>
    /\ rr_sleeps = <<>>
    /\ rr_after = "none"
    /\ rr_result = [kind |-> "none", error |-> "None"]

\* `continue`, or the end of the loop body: the next iteration starts, or
\* the loop is over and line 99 raises with the last error seen
NextIteration(err) ==
    IF attempt + 1 < max_retries
    THEN UNCHANGED <<rr_pc, rr_result>>
    ELSE /\ rr_pc' = "raised"
         /\ rr_result' = [kind |-> "raised_after_retries", error |-> err]

\* lines 68-69: status 200 returns the response
RetryReturn(r) ==
    /\ r.kind = "response" /\ r.status = 200
    /\ rr_pc' = "returned"
    /\ rr_result' = [kind |-> "returned", error |-> "None"]
    /\ rr_after' = "returned"
    /\ UNCHANGED <<attempt, backoff, last_error, rr_sleeps>>

\* lines 71-80: a retryable status waits and goes on to the next attempt
RetryOnStatus(r) ==
    /\ r.kind = "response" /\ r.status \in RetryableStatuses
    /\ LET parsed == ParseInt(r.retry_after)
           wait == IF r.retry_after # <<>> /\ parsed.ok THEN parsed.value
                   ELSE backoff
       IN IF wait < 0
          THEN \* time.sleep raises ValueError, which no except clause catches
               /\ rr_pc' = "raised"
               /\ rr_result' = [kind |-> "raised", error |-> "ValueError"]
               /\ rr_after' = "raised"
               /\ backoff' = wait
               /\ UNCHANGED <<attempt, rr_sleeps>>
          ELSE /\ rr_sleeps' = Append(rr_sleeps, wait)
               /\ backoff' = Min(wait * 2, BACKOFF_CAP)
               /\ attempt' = attempt + 1
               /\ rr_after' = "slept"
               /\ NextIteration(last_error)
    /\ UNCHANGED last_error

\* variant: the except clauses cap the doubled backoff as line 79 does
RetryOnExceptionCapped(e) ==
    /\ last_error' = e
    /\ IF attempt < max_retries - 1
       THEN /\ rr_sleeps' = Append(rr_sleeps, backoff)
            /\ backoff' = Min(backoff * 2, BACKOFF_CAP)
            /\ attempt' = attempt + 1
            /\ rr_after' = "slept"
            /\ NextIteration(e)
       ELSE /\ rr_pc' = "raised"
            /\ rr_result' = [kind |-> "raised", error |-> e]
            /\ rr_after' = "raised"
            /\ UNCHANGED <<attempt, backoff, rr_sleeps>>

\* lines 84-97: the two except clauses have the same body
RetryOnException(e) ==
    /\ last_error' = e
    /\ IF attempt < max_retries - 1
       THEN /\ rr_sleeps' = Append(rr_sleeps, backoff)
            /\ backoff' = backoff * 2
            /\ attempt' = attempt + 1
            /\ rr_after' = "slept"
            /\ NextIteration(e)
       ELSE /\ rr_pc' = "raised"
            /\ rr_result' = [kind |-> "raised", error |-> e]
            /\ rr_after' = "raised"
            /\ UNCHANGED <<attempt, backoff, rr_sleeps>>

\* line 82: raise_for_status inside the try block; HTTPError is a
\* RequestException, so the clause of line 91 catches it
RetryOnOtherStatus(r) ==
    /\ r.kind = "response" /\ r.status # 200
    /\ r.status \notin RetryableStatuses
    /\ IF RaisesForStatus(r.status)
       THEN RetryOnException("HTTPError")
       ELSE \* nothing raised: the loop body ends and the loop goes on
            /\ attempt' = attempt + 1
            /\ rr_after' = "fellthrough"
            /\ NextIteration(last_error)
            /\ UNCHANGED <<backoff, last_error, rr_sleeps>>

\* lines 58-97: one iteration of the loop
RetryAttempt ==
    /\ rr_pc = "request"
    /\ attempt < max_retries
    /\ \E r \in Responses :
        /\ rr_requests' = Append(rr_requests, Seen(r))
        /\ \/ RetryReturn(r)
           \/ RetryOnStatus(r)
           \/ RetryOnOtherStatus(r)
           \/ (r.kind = "exception" /\ RetryOnException(r.exc))
    /\ UNCHANGED max_retries
    /\ UNCHANGED <<safeVars, runVars, authVars, listVars,
                 folderVars,
                 guiVars>>

\* RetryExhausted for a loop that tries once before it gives up
RetryExhaustedAfterRequest ==
    /\ rr_pc = "request"
    /\ attempt >= max_retries
    /\ rr_pc' = "raised"
    /\ rr_result' = [kind |-> "raised_after_retries", error |-> last_error]
    /\ rr_after' = "raised"
    /\ rr_requests' = Append(rr_requests,
                             Seen([kind |-> "response", status |-> 503,
                                   retry_after |-> <<>>, exc |-> "none"]))
    /\ UNCHANGED <<max_retries, attempt, backoff, last_error, rr_sleeps>>
    /\ UNCHANGED <<safeVars, runVars, authVars, listVars,
                 folderVars,
                 guiVars>>

\* lines 58 and 99: range(max_retries) is empty, the loop body never runs
RetryExhausted ==
    /\ rr_pc = "request"
    /\ attempt >= max_retries
    /\ rr_pc' = "raised"
    /\ rr_result' = [kind |-> "raised_after_retries", error |-> last_error]
    /\ rr_after' = "raised"
    /\ UNCHANGED <<max_retries, attempt, backoff, last_error, rr_requests,
                   rr_sleeps>>
    /\ UNCHANGED <<safeVars, runVars, authVars, listVars,
                 folderVars,
                 guiVars>>

NextRetry == RetryAttempt \/ RetryExhausted

(***************************************************************************)
(* Response bodies.  A body is a sequence of tokens; a token stands for    *)
(* the text it names and has that text's length, except FILLER, which      *)
(* stands for 500 characters of CSV data.                                  *)
(***************************************************************************)
FILLER == "<500 characters of data>"

TokenLen(t) ==
    CASE t = "<!DOCTYPE" -> 9
      [] t = "<html" -> 5
      [] t = "login.salesforce.com" -> 20
      [] t = "ec=302" -> 6
      [] t = "You do not have access" -> 22
      [] t = "Error" -> 5
      [] t = "col" -> 3
      [] t = FILLER -> 500
      [] OTHER -> 1

WhitespaceTokens == {" ", "\n"}

RECURSIVE BodyLen(_)
BodyLen(b) == IF b = <<>> THEN 0 ELSE TokenLen(Head(b)) + BodyLen(Tail(b))

\* sub in content
Contains(b, t) == \E i \in 1..Len(b) : b[i] = t

\* content.strip().startswith(t)
StrippedStartsWith(b, t) ==
    LET stripped == StripEnds(b, WhitespaceTokens)
    IN stripped # <<>> /\ stripped[1] = t

\* content.split('\n')[0]
FirstLine(b) ==
    LET breaks == {i \in 1..Len(b) : b[i] = "\n"}
    IN IF breaks = {} THEN b
       ELSE SubSeq(b, 1, (CHOOSE i \in breaks : \A j \in breaks : i <= j) - 1)

\* the limit under which a first line with 'Error' is an inline error
INLINE_ERROR_LIMIT == 500

HtmlLoginBody == <<"<!DOCTYPE", "login.salesforce.com">>
BlankBody == <<" ", "\n">>
InlineErrorBody == <<"Error", " ", "col", "\n">>
CsvBody == <<"col", "\n", "col", "\n">>

\* the bodies the server answers an export request with in a run
RunBodies == {HtmlLoginBody, BlankBody, InlineErrorBody, CsvBody}

\* what retry_request gives export_report_csv: a 200 response or an exception
HttpOutcomes ==
    [kind : {"raise"}, body : {<<>>}] \cup [kind : {"response"}, body : RunBodies]

\* the texts bodies are made of: the markers the code looks for, 'Error',
\* whitespace, data
BodyTokens ==
    {"<!DOCTYPE", "<html", "login.salesforce.com", "ec=302",
     "You do not have access", "Error", "col", " ", "\n", FILLER}

\* every outcome of the export request with a body of at most MaxBody tokens
AllHttpOutcomes ==
    [kind : {"raise"}, body : {<<>>}]
    \cup [kind : {"response"}, body : SeqsUpTo(BodyTokens, MaxBody)]

Failure(msg) == [ok |-> FALSE, text |-> <<>>, error |-> msg]

Success(text) == [ok |-> TRUE, text |-> text, error |-> "None"]

\* export_report_csv looking for the access-denied phrase first
export_report_csv_denied_first(http) ==
    IF http.kind = "raise" THEN Failure("Request failed")
    ELSE LET content == http.body
         IN IF StrippedStartsWith(content, "<!DOCTYPE")
               \/ StrippedStartsWith(content, "<html")
            THEN IF Contains(content, "You do not have access")
                 THEN Failure("Access denied to this report.")
                 ELSE IF Contains(content, "login.salesforce.com")
                         \/ Contains(content, "ec=302")
                      THEN Failure("Session expired or invalid. Please re-login.")
                      ELSE Failure("Received HTML instead of CSV. Report may not be exportable.")
            ELSE Success(content)

\* export_report_csv, lines 187-205
export_report_csv(http) ==
    IF http.kind = "raise" THEN Failure("Request failed")
    ELSE LET content == http.body
         IN IF StrippedStartsWith(content, "<!DOCTYPE")
               \/ StrippedStartsWith(content, "<html")
            THEN IF Contains(content, "login.salesforce.com")
                    \/ Contains(content, "ec=302")
                 THEN Failure("Session expired or invalid. Please re-login.")
                 ELSE IF Contains(content, "You do not have access")
                      THEN Failure("Access denied to this report.")
                      ELSE Failure("Received HTML instead of CSV. Report may not be exportable.")
            ELSE Success(content)

\* lines 255-262: the call and the two checks of the orchestrator
CheckedCsv(http) ==
    LET got == export_report_csv(http)
    IN IF ~got.ok THEN got
       ELSE IF got.text = <<>> \/ StripEnds(got.text, WhitespaceTokens) = <<>>
            THEN Failure("Empty response received")
            ELSE IF Contains(FirstLine(got.text), "Error")
                    /\ BodyLen(got.text) < INLINE_ERROR_LIMIT
                 THEN Failure("Salesforce error")
                 ELSE got

(***************************************************************************)
(* export_all_reports_to_zip.                                              *)
(***************************************************************************)
CSV_EXT == <<".", "c", "s", "v">>
README_NAME == <<"_", "R", "E", "A", "D", "M", "E", ".", "t", "x", "t">>
SUMMARY_NAME ==
    <<"_", "E", "X", "P", "O", "R", "T", "_", "S", "U", "M", "M", "A", "R", "Y",
      ".", "t", "x", "t">>

\* the names reports carry; <<>> is a missing name
ReportNames == {<<>>, <<"S">>, <<"S", "/", "_", "2">>}

\* the i-th report of a catalog has the id r<i>
ReportId(i) == <<"r">> \o IntToStr(i)

\* the catalogs of at most MaxReports reports with the names and folders given
CatalogsOver(names, folders) ==
    {[i \in 1..Len(described) |->
        [id |-> ReportId(i), name |-> described[i][1],
         reportFormat |-> "TABULAR", folderId |-> described[i][2]]] :
     described \in SeqsUpTo(names \X folders, MaxReports)}

Catalogs == CatalogsOver(ReportNames, {"X"})

\* what a run is to export, here everything: export_all_reports_to_zip
ExportAll == [by |-> "all", folder_id |-> "", report_ids |-> {}]

\* src/main.py lines 819-825: the entry point _export_worker_folder calls
WorkerFolderScope(folder_id) ==
    IF folder_id = "ALL" THEN ExportAll
    ELSE [by |-> "folder", folder_id |-> folder_id, report_ids |-> {}]

\* src/main.py lines 843-846: the entry point _export_worker_selected calls
WorkerSelectedScope(report_ids) ==
    [by |-> "selected", folder_id |-> "", report_ids |-> report_ids]

\* InScope for an entry point that takes the whole catalog
InScopeEverything(listed, sc) == listed

\* the reports an entry point works on, in catalog order
InScope(listed, sc) ==
    LET wanted(report) ==
            CASE sc.by = "folder" -> report.folderId = sc.folder_id
              [] sc.by = "selected" -> report.id \in sc.report_ids
              [] OTHER -> TRUE
        kept == {i \in 1..Len(listed) : wanted(listed[i])}
        nth(k) == CHOOSE i \in kept : Cardinality({j \in kept : j <= i}) = k
    IN [k \in 1..Cardinality(kept) |-> listed[nth(k)]]

\* a text-mode write (newline=None): every '\n' becomes os.linesep
TextModeWrite(text, linesep) ==
    [i \in 1..Len(text) |-> IF text[i] = "\n" THEN linesep ELSE text[i]]

Put(f, k, v) == [x \in DOMAIN f \cup {k} |-> IF x = k THEN v ELSE f[x]]

\* AssignFilename with the suffix taken from the count before the increment
AssignFilenameStaleCount(used, base_name) ==
    IF base_name \in DOMAIN used
    THEN [used |-> Put(used, base_name, used[base_name] + 1),
          filename |-> base_name \o <<"_">> \o IntToStr(used[base_name])
                       \o CSV_EXT]
    ELSE [used |-> Put(used, base_name, 1),
          filename |-> base_name \o CSV_EXT]

\* lines 245-250: [used, filename]
AssignFilename(used, base_name) ==
    IF base_name \in DOMAIN used
    THEN [used |-> Put(used, base_name, used[base_name] + 1),
          filename |-> base_name \o <<"_">> \o IntToStr(used[base_name] + 1)
                       \o CSV_EXT]
    ELSE [used |-> Put(used, base_name, 1),
          filename |-> base_name \o CSV_EXT]

\* code points in ascending order, for the characters of file names
CharOrder ==
    <<" ", "-", ".", "/", "0", "1", "2", "3", "4", "5", "6", "7", "8", "9",
      "A", "D", "E", "M", "O", "P", "R", "S", "T", "U", "X", "Y", "_",
      "a", "c", "d", "e", "m", "n", "o", "p", "r", "s", "t", "u", "v", "x">>

CharRank(c) == CHOOSE i \in 1..Len(CharOrder) : CharOrder[i] = c

\* a < b for strings
RECURSIVE StrLess(_, _)
StrLess(a, b) ==
    IF b = <<>> THEN FALSE
    ELSE IF a = <<>> THEN TRUE
    ELSE IF a[1] = b[1] THEN StrLess(Tail(a), Tail(b))
    ELSE CharRank(a[1]) < CharRank(b[1])

\* sorted(names)
RECURSIVE SortedNames(_)
SortedNames(S) ==
    IF S = {} THEN <<>>
    ELSE LET least == CHOOSE a \in S : \A b \in S \ {a} : StrLess(a, b)
         IN <<least>> \o SortedNames(S \ {least})

\* _create_summary, lines 325-347: the lines that depend on the run
create_summary(t, succ, fail) ==
    [total |-> t, n_successful |-> Len(succ), n_failed |-> Len(fail),
     failures |-> [i \in 1..Len(fail) |->
                     [name |-> fail[i].name, type |-> fail[i].type,
                      id |-> fail[i].id, error |-> fail[i].error]]]

NoSummary == [total |-> 0, n_successful |-> 0, n_failed |-> 0, failures |-> <<>>]

NoOutcome == [kind |-> "none"]

RaisedOutcome(e) == [kind |-> "exception", error |-> e]

\* the dict returned at lines 228-234 and 304-310
ResultOutcome(t, fail, succ) ==
    [kind |-> "result", total |-> t, failed |-> fail, successful |-> succ]

RunIdle ==
    /\ pc = "idle"
    /\ catalog = <<>>
    /\ scope = ExportAll
    /\ os_linesep = "\n"
    /\ callback_raises = {}
    /\ has_callback = FALSE
    /\ delay = 0
    /\ tmp_exists = FALSE
    /\ tmp_files = <<>>
    /\ reports = <<>>
    /\ total = 0
    /\ completed = 0
    /\ successful = <<>>
    /\ failed = <<>>
    /\ used_filenames = <<>>
    /\ assigned = <<>>
    /\ engine_calls = 0
    /\ engine_log = <<>>
    /\ progress_calls = <<>>
    /\ delay_sleeps = 0
    /\ steps = <<>>
    /\ zip_file = "absent"
    /\ zip_entries = <<>>
    /\ zip_summary = NoSummary
    /\ pending = NoOutcome
    /\ outcome = NoOutcome
    /\ cleanup_tried = FALSE
    /\ trace = <<>>

\* the exporter is constructed and the entry point is called, with one of
\* the catalogs, scopes, callbacks (set or not, raising at the calls of a
\* set of raisers), delays and platforms given
RunStartWith(catalogs, scopes, callbacks, raisers, delays, lineseps) ==
    /\ pc = "init"
    /\ catalog \in catalogs
    /\ scope \in scopes
    /\ os_linesep \in lineseps
    /\ has_callback \in callbacks
    /\ callback_raises \in IF has_callback THEN raisers ELSE {{}}
    /\ delay \in delays
    /\ tmp_exists = FALSE
    /\ tmp_files = <<>>
    /\ reports = <<>>
    /\ total = 0
    /\ completed = 0
    /\ successful = <<>>
    /\ failed = <<>>
    /\ used_filenames = <<>>
    /\ assigned = <<>>
    /\ engine_calls = 0
    /\ engine_log = <<>>
    /\ progress_calls = <<>>
    /\ delay_sleeps = 0
    /\ steps = <<>>
    /\ zip_file = "absent"
    /\ zip_entries = <<>>
    /\ zip_summary = NoSummary
    /\ pending = NoOutcome
    /\ outcome = NoOutcome
    /\ cleanup_tried = FALSE
    /\ trace = <<"INIT">>

\* line 215: tempfile.mkdtemp
Mkdtemp ==
    /\ pc = "init"
    /\ tmp_exists' = TRUE
    /\ pc' = "listing"
    /\ UNCHANGED <<catalog, scope, os_linesep, callback_raises, has_callback,
                   delay, tmp_files, reports, total,
                   completed, successful, failed, used_filenames, assigned,
                   engine_calls, engine_log, progress_calls, delay_sleeps, steps,
                   zip_file,
                   zip_entries, zip_summary, pending, outcome, cleanup_tried,
                   trace>>
    /\ UNCHANGED <<safeVars, retryVars, authVars, listVars,
                 folderVars,
                 guiVars>>

\* AfterListing without the special case of an empty catalog
AfterListingNoEmptyCase(t) == IF t = 0 THEN "packaging" ELSE "exporting"

\* where the run goes once the catalog is in: line 225
AfterListing(t) == IF t = 0 THEN "empty_zip" ELSE "exporting"

\* ListReports for a loop that walks the catalog from its end
ListReportsReversed ==
    /\ pc = "listing"
    /\ reports' = [i \in 1..Len(InScope(catalog, scope)) |->
                      InScope(catalog, scope)[Len(InScope(catalog, scope)) + 1 - i]]
    /\ total' = Len(reports')
    /\ completed' = 0
    /\ failed' = <<>>
    /\ successful' = <<>>
    /\ used_filenames' = <<>>
    /\ pc' = AfterListing(total')
    /\ trace' = Append(trace, "LISTING")
    /\ UNCHANGED <<catalog, scope, os_linesep, callback_raises, has_callback,
                   delay, tmp_exists, tmp_files,
                   assigned, engine_calls, engine_log, progress_calls,
                   delay_sleeps, steps,
                   zip_file, zip_entries, zip_summary, pending, outcome,
                   cleanup_tried>>
    /\ UNCHANGED <<safeVars, retryVars, authVars, listVars,
                 folderVars,
                 guiVars>>

\* lines 219-223: list_reports returns, the locals are set
ListReports ==
    /\ pc = "listing"
    /\ reports' = InScope(catalog, scope)
    /\ total' = Len(reports')
    /\ completed' = 0
    /\ failed' = <<>>
    /\ successful' = <<>>
    /\ used_filenames' = <<>>
    /\ pc' = AfterListing(total')
    /\ trace' = Append(trace, "LISTING")
    /\ UNCHANGED <<catalog, scope, os_linesep, callback_raises, has_callback,
                   delay, tmp_exists, tmp_files,
                   assigned, engine_calls, engine_log, progress_calls,
                   delay_sleeps, steps,
                   zip_file, zip_entries, zip_summary, pending, outcome,
                   cleanup_tried>>
    /\ UNCHANGED <<safeVars, retryVars, authVars, listVars,
                 folderVars,
                 guiVars>>

\* ListReportsFails for a run that opens the ZIP before it lists the catalog
ListReportsFailsAfterZip ==
    /\ pc = "listing"
    /\ pending' = RaisedOutcome("listing failed")
    /\ pc' = "cleanup"
    /\ trace' = Append(trace, "LISTING")
    /\ zip_file' = "partial"
    /\ UNCHANGED <<catalog, scope, os_linesep, callback_raises, has_callback,
                   delay, tmp_exists, tmp_files, reports,
                   total, completed, successful, failed, used_filenames,
                   assigned, engine_calls, engine_log, progress_calls,
                   delay_sleeps, steps,
                   zip_entries, zip_summary, outcome, cleanup_tried>>
    /\ UNCHANGED <<safeVars, retryVars, authVars, listVars,
                 folderVars,
                 guiVars>>

\* line 219: list_reports raises (retry_request raised, or the body is no JSON)
ListReportsFails ==
    /\ pc = "listing"
    /\ pending' = RaisedOutcome("listing failed")
    /\ pc' = "cleanup"
    /\ trace' = Append(trace, "LISTING")
    /\ UNCHANGED <<catalog, scope, os_linesep, callback_raises, has_callback,
                   delay, tmp_exists, tmp_files, reports,
                   total, completed, successful, failed, used_filenames,
                   assigned, engine_calls, engine_log, progress_calls,
                   delay_sleeps, steps,
                   zip_file, zip_entries, zip_summary, outcome, cleanup_tried>>
    /\ UNCHANGED <<safeVars, retryVars, authVars, listVars,
                 folderVars,
                 guiVars>>

\* lines 225-234: the ZIP of an empty catalog
WriteEmptyZip ==
    /\ pc = "empty_zip"
    /\ trace' = Append(trace, "PACKAGING")
    /\ \E zip_ok \in BOOLEAN :
        IF zip_ok
        THEN /\ zip_file' = "complete"
             /\ zip_entries' = <<README_NAME>>
             /\ pending' = ResultOutcome(0, <<>>, <<>>)
        ELSE /\ zip_file' = "partial"
             /\ zip_entries' = <<>>
             /\ pending' = RaisedOutcome("zip failed")
    /\ pc' = "cleanup"
    /\ UNCHANGED <<catalog, scope, os_linesep, callback_raises, has_callback,
                   delay, tmp_exists, tmp_files, reports,
                   total, completed, successful, failed, used_filenames,
                   assigned, engine_calls, engine_log, progress_calls,
                   delay_sleeps, steps,
                   zip_summary, outcome, cleanup_tried>>
    /\ UNCHANGED <<safeVars, retryVars, authVars, listVars,
                 folderVars,
                 guiVars>>

\* line 241: report.get("name") or report_id
ReportName(report) == IF report.name # <<>> THEN report.name ELSE report.id

\* AfterReport leaving the loop one report early
AfterReportEarly(done, n) == IF done < n - 1 THEN "exporting" ELSE "packaging"

\* the `for report in reports` loop goes on, or ends and Step 3 starts
AfterReport(done, n) == IF done < n THEN "exporting" ELSE "packaging"

\* DelayApplies for a delay that follows every report
DelayAppliesAfterEach(d, done, n) == d > 0

\* line 292: the inter-report delay applies
DelayApplies(d, done, n) == d > 0 /\ done < n

\* ProgressArgs with the count taken before `completed += 1`
ProgressArgsBeforeIncrement(done, n) == <<done - 1, n>>

\* line 288: the arguments of self.progress_callback(completed, total)
ProgressArgs(done, n) == <<done, n>>

\* lines 264 and 282: write_text creates or replaces the file at csv_path
WriteText(files, filename, content) == Put(files, filename, content)

\* lines 269-274: the failure record
FailureRecord(report, error_msg) ==
    [id |-> report.id, name |-> ReportName(report),
     type |-> report.reportFormat, error |-> error_msg]

\* lines 275-281: the stub text
StubContent(report, error_msg) ==
    [kind |-> "stub", id |-> report.id, name |-> ReportName(report),
     type |-> report.reportFormat, error |-> error_msg]

\* RecordSuccess keeping each name once
RecordSuccessDistinct(succ, report_name) ==
    IF \E i \in 1..Len(succ) : succ[i] = report_name THEN succ
    ELSE Append(succ, report_name)

\* line 265: successful.append(report_name)
RecordSuccess(succ, report_name) == Append(succ, report_name)

\* HandlerCatches for a handler that names only the request errors
HandlerCatchesRequestErrors(error_msg) == error_msg = "Request failed"

\* line 267: `except Exception` catches every failure of the try block
HandlerCatches(error_msg) == TRUE

\* CallbackHandlerCatches for a callback called outside a try block
CallbackHandlerCatchesNothing == FALSE

\* lines 289-290: `except Exception: pass` around the callback
CallbackHandlerCatches == TRUE

\* lines 284-293: the end of a loop iteration that did not raise, after the
\* steps taken so far
FinishReport(taken) ==
    LET done == completed + 1
        raised == has_callback /\ done \in callback_raises
        called == IF ~has_callback THEN taken
                  ELSE IF raised THEN Append(taken, <<"callback raised", done>>)
                  ELSE Append(taken, <<"callback", done>>)
    IN /\ completed' = done
       /\ progress_calls' = IF has_callback
                            THEN Append(progress_calls, ProgressArgs(done, total))
                            ELSE progress_calls
       /\ IF raised /\ ~CallbackHandlerCatches
          THEN /\ pending' = RaisedOutcome("callback failed")
               /\ pc' = "cleanup"
               /\ steps' = called
               /\ UNCHANGED delay_sleeps
          ELSE /\ delay_sleeps' = IF DelayApplies(delay, done, total)
                                  THEN delay_sleeps + 1 ELSE delay_sleeps
               /\ steps' = IF DelayApplies(delay, done, total)
                           THEN Append(called, <<"sleep", done>>) ELSE called
               /\ pc' = AfterReport(done, total)
               /\ UNCHANGED pending

\* lines 239-293: one iteration of the loop over the reports, the export
\* request answered with one of the outcomes given
ExportReportWith(outcomes) ==
    /\ pc = "exporting"
    /\ LET report == reports[completed + 1]
           base_name == safe_filename(ReportName(report), MAX_LENGTH)
           named == AssignFilename(used_filenames, base_name)
           written == Append(steps, <<"write_text", completed + 1>>)
       IN /\ used_filenames' = named.used
          /\ assigned' = Append(assigned, named.filename)
          /\ engine_calls' = engine_calls + 1
          /\ trace' = Append(trace, "EXPORTING")
          /\ \E http \in outcomes, stub_write_ok \in BOOLEAN :
               LET checked == CheckedCsv(http)
                   error_msg == checked.error
               IN /\ engine_log' = Append(engine_log,
                                      [ok |-> checked.ok, text |-> checked.text,
                                       error |-> checked.error, received |-> http,
                                       returned |-> export_report_csv(http)])
                  /\ IF checked.ok
                     THEN \* lines 264-265
                          /\ tmp_files' = WriteText(tmp_files, named.filename,
                                              [kind |-> "csv",
                                               text |-> TextModeWrite(checked.text,
                                                                      os_linesep)])
                          /\ successful' = RecordSuccess(successful, ReportName(report))
                          /\ UNCHANGED failed
                          /\ FinishReport(written)
                     ELSE IF ~HandlerCatches(error_msg)
                     THEN \* the failure leaves the loop
                          /\ pending' = RaisedOutcome(error_msg)
                          /\ pc' = "cleanup"
                          /\ UNCHANGED <<tmp_files, completed, progress_calls,
                                         delay_sleeps, steps, successful, failed>>
                     ELSE \* lines 267-282
                          /\ failed' = Append(failed, FailureRecord(report, error_msg))
                          /\ UNCHANGED successful
                          /\ IF stub_write_ok
                             THEN /\ tmp_files' = WriteText(tmp_files, named.filename,
                                                      StubContent(report, error_msg))
                                  /\ FinishReport(written)
                             ELSE \* the stub's write_text raises out of the handler
                                  /\ pending' = RaisedOutcome("stub write failed")
                                  /\ pc' = "cleanup"
                                  /\ UNCHANGED <<tmp_files, completed,
                                                 progress_calls, delay_sleeps,
                                                 steps>>
    /\ UNCHANGED <<catalog, scope, os_linesep, callback_raises, has_callback,
                   delay, tmp_exists, reports, total,
                   zip_file, zip_entries, zip_summary, outcome, cleanup_tried>>
    /\ UNCHANGED <<safeVars, retryVars, authVars, listVars,
                 folderVars,
                 guiVars>>

\* the loop iteration of a run against the server of RunBodies
ExportReport == ExportReportWith(HttpOutcomes)

\* lines 296-310: Step 3, the ZIP and the result
CreateZip ==
    /\ pc = "packaging"
    /\ trace' = Append(trace, "PACKAGING")
    /\ \E zip_ok \in BOOLEAN :
        IF zip_ok
        THEN /\ zip_file' = "complete"
             /\ zip_entries' = Append(SortedNames(DOMAIN tmp_files), SUMMARY_NAME)
             /\ zip_summary' = create_summary(total, successful, failed)
             /\ pending' = ResultOutcome(total, failed, successful)
        ELSE /\ zip_file' = "partial"
             /\ zip_entries' = <<>>
             /\ zip_summary' = NoSummary
             /\ pending' = RaisedOutcome("zip failed")
    /\ pc' = "cleanup"
    /\ UNCHANGED <<catalog, scope, os_linesep, callback_raises, has_callback,
                   delay, tmp_exists, tmp_files, reports,
                   total, completed, successful, failed, used_filenames,
                   assigned, engine_calls, engine_log, progress_calls,
                   delay_sleeps, steps,
                   outcome, cleanup_tried>>
    /\ UNCHANGED <<safeVars, retryVars, authVars, listVars,
                 folderVars,
                 guiVars>>

\* AfterCleanup for a `finally` block whose rmtree error is not caught
AfterCleanupRaising(p, rmtree_ok) ==
    IF rmtree_ok THEN p ELSE RaisedOutcome("rmtree failed")

\* lines 313-316: what leaves the `finally` block
AfterCleanup(p, rmtree_ok) == p

\* lines 312-316: the finally block
Cleanup ==
    /\ pc = "cleanup"
    /\ cleanup_tried' = TRUE
    /\ \E rmtree_ok \in BOOLEAN :
        /\ tmp_exists' = ~rmtree_ok
        /\ tmp_files' = IF rmtree_ok THEN <<>> ELSE tmp_files
        /\ outcome' = AfterCleanup(pending, rmtree_ok)
    /\ pc' = "done"
    /\ trace' = trace \o <<"CLEANUP",
                           IF outcome'.kind = "result" THEN "DONE" ELSE "RAISED">>
    /\ UNCHANGED <<catalog, scope, os_linesep, callback_raises, has_callback,
                   delay, reports, total, completed,
                   successful, failed, used_filenames, assigned, engine_calls,
                   engine_log, progress_calls, delay_sleeps, steps, zip_file,
                   zip_entries,
                   zip_summary, pending>>
    /\ UNCHANGED <<safeVars, retryVars, authVars, listVars,
                 folderVars,
                 guiVars>>

NextRun ==
    \/ Mkdtemp
    \/ ListReports
    \/ ListReportsFails
    \/ WriteEmptyZip
    \/ ExportReport
    \/ CreateZip
    \/ Cleanup

(***************************************************************************)
(* SalesforceAuth.login (src/salesforce_auth.py).                          *)
(*                                                                         *)
(* An XML document is the sequence of its elements in document order; an   *)
(* element is [tag, ns, text, parent], with the local name, the namespace  *)
(* ("soapenv", "sf" or "" for none), the element's text and the index of   *)
(* its parent (0 for the root).  A text is a sequence of tokens, <<>> for  *)
(* an element without text.  The empty document is a body that is not      *)
(* well-formed XML.                                                        *)
(***************************************************************************)
Elem(tag, ns, text, parent) ==
    [tag |-> tag, ns |-> ns, text |-> text, parent |-> parent]

\* element i is a proper ancestor of element j
RECURSIVE IsAncestor(_, _, _)
IsAncestor(doc, i, j) ==
    /\ j > 0
    /\ doc[j].parent > 0
    /\ (doc[j].parent = i \/ IsAncestor(doc, i, doc[j].parent))

\* the least element of a set of indices, 0 for the empty set
First(S) == IF S = {} THEN 0 ELSE CHOOSE i \in S : \A j \in S : i <= j

\* parent.find('.//ns:tag', ns): the first descendant with that qualified
\* name; 0 is None
Find(doc, parent, ns, tag) ==
    First({j \in 1..Len(doc) :
            /\ IsAncestor(doc, parent, j)
            /\ doc[j].ns = ns
            /\ doc[j].tag = tag})

\* parent.find('tag'): the first child with that name and no namespace
FindChild(doc, parent, tag) ==
    First({j \in 1..Len(doc) :
            /\ doc[j].parent = parent
            /\ doc[j].ns = ""
            /\ doc[j].tag = tag})

\* lines 245-253: parent.iter() visits parent itself and its descendants
find_element_by_local_name(doc, parent, local_name) ==
    First({j \in 1..Len(doc) :
            /\ (j = parent \/ IsAncestor(doc, parent, j))
            /\ doc[j].tag = local_name})

\* lines 233-243
get_element_text(doc, parent, tag_name) ==
    LET elem == Find(doc, parent, "sf", tag_name)
        other == find_element_by_local_name(doc, parent, tag_name)
    IN IF elem # 0 /\ doc[elem].text # <<>> THEN doc[elem].text
       ELSE IF other # 0 /\ doc[other].text # <<>> THEN doc[other].text
       ELSE <<>>

\* lines 255-263: re.match(r'(https://[^/]+)', server_url)
extract_instance_url(server_url) ==
    IF server_url = <<>> THEN <<>>
    ELSE IF Len(server_url) >= 2 /\ server_url[1] = "https://"
            /\ server_url[2] # "/"
         THEN SubSeq(server_url, 1, 2)
         ELSE server_url

\* lines 265-280: the text of the first element whose tag holds
\* 'faultstring', else the first non-empty text of an element whose tag
\* holds 'message' or 'error'; <<>> is None
extract_soap_fault(doc) ==
    LET faults == {j \in 1..Len(doc) : doc[j].tag = "faultstring"}
        others == {j \in 1..Len(doc) :
                    /\ doc[j].tag \in {"message", "error"}
                    /\ doc[j].text # <<>>}
    IN IF faults # {} THEN doc[First(faults)].text
       ELSE IF others # {} THEN doc[First(others)].text
       ELSE <<>>

\* texts of the scripted login responses
LoginText(tag) ==
    CASE tag = "sessionId" -> <<"00Dxx!AQoAQ">>
      [] tag = "faultstring" -> <<"INVALID_LOGIN: Invalid username, password">>
      [] tag = "userId" -> <<"005xx">>
      [] tag = "organizationId" -> <<"00Dxx">>
      [] tag = "userFullName" -> <<"Ada Admin">>

ServerUrl(scheme) ==
    <<scheme, "na1.salesforce.com", "/", "services/Soap/u/58.0/00Dxx">>

\* the shapes of the scripted login response bodies
\*   fault   "none" | "faultstring" | "bare"
\*   result  "absent" | "sf" | "plain"
\*   sid     "absent" | "empty" | "sf" | "plain"
\*   surl    "absent" | "https" | "http"

NsOf(shape) == IF shape = "sf" THEN "sf" ELSE ""

\* <soapenv:Fault> under the body (element 2), with or without faultstring
FaultPart(fault) ==
    IF fault = "none" THEN <<>>
    ELSE <<Elem("Fault", "soapenv", <<>>, 2)>>
         \o (IF fault = "faultstring"
             THEN <<Elem("faultstring", "", LoginText("faultstring"), 3)>>
             ELSE <<>>)

\* <loginResponse><result>...</result></loginResponse> under the body, the
\* loginResponse element being element number `at`
ResultPart(result, sid, surl, uinfo, at) ==
    IF result = "absent" THEN <<>>
    ELSE LET ns == NsOf(result)
             sidPart ==
                 IF sid = "absent" THEN <<>>
                 ELSE <<Elem("sessionId", NsOf(sid),
                             IF sid = "empty" THEN <<>>
                             ELSE LoginText("sessionId"),
                             at + 1)>>
             surlPart ==
                 IF surl = "absent" THEN <<>>
                 ELSE <<Elem("serverUrl", ns,
                             IF surl = "https" THEN ServerUrl("https://")
                             ELSE ServerUrl("http://"),
                             at + 1)>>
             ui == at + 1 + Len(sidPart) + Len(surlPart) + 1
             uiPart ==
                 IF uinfo
                 THEN <<Elem("userInfo", ns, <<>>, at + 1),
                        Elem("userId", ns, LoginText("userId"), ui),
                        Elem("organizationId", ns,
                             LoginText("organizationId"), ui),
                        Elem("userFullName", ns,
                             LoginText("userFullName"), ui)>>
                 ELSE <<>>
         IN <<Elem("loginResponse", ns, <<>>, 2),
              Elem("result", ns, <<>>, at)>>
            \o sidPart \o surlPart \o uiPart

\* the SOAP envelope of a login response
LoginDoc(fault, result, sid, surl, uinfo) ==
    LET head == <<Elem("Envelope", "soapenv", <<>>, 0),
                  Elem("Body", "soapenv", <<>>, 1)>>
        faultPart == FaultPart(fault)
    IN head \o faultPart
       \o ResultPart(result, sid, surl, uinfo,
                     Len(head) + Len(faultPart) + 1)

\* what the POST of line 110 can produce: an exception of requests, or a
\* response with a status and a body
PostAnswer(kind, status, wellformed, fault, result, sid, surl, uinfo) ==
    [kind |-> kind, status |-> status, wellformed |-> wellformed,
     fault |-> fault, result |-> result, sid |-> sid, surl |-> surl,
     uinfo |-> uinfo,
     doc |-> IF kind = "response" /\ wellformed
             THEN LoginDoc(fault, result, sid, surl, uinfo) ELSE <<>>]

PostAnswers ==
    {PostAnswer("exception", 0, FALSE, "none", "absent", "absent", "absent",
                FALSE)}
    \cup
    {PostAnswer("response", st, FALSE, "none", "absent", "absent", "absent",
                FALSE) : st \in {200, 500}}
    \cup
    {PostAnswer("response", st, TRUE, f, "absent", "absent", "absent", FALSE) :
        st \in {200, 500}, f \in {"none", "faultstring", "bare"}}
    \cup
    {PostAnswer("response", st, TRUE, f, r, sid, surl, ui) :
        st \in {200, 500}, f \in {"none", "faultstring", "bare"},
        r \in {"sf", "plain"}, sid \in {"absent", "empty", "sf", "plain"},
        surl \in {"absent", "https", "http"}, ui \in BOOLEAN}

NoPostAnswer ==
    PostAnswer("none", 0, FALSE, "none", "absent", "absent", "absent", FALSE)

\* ---- the domain argument and the base URL (texts of characters)
HTTPS_PREFIX == <<"h", "t", "t", "p", "s", ":", "/", "/">>
SALESFORCE_SUFFIX ==
    <<".", "s", "a", "l", "e", "s", "f", "o", "r", "c", "e", ".", "c", "o",
      "m">>
LOGIN_ALIAS == <<"l", "o", "g", "i", "n">>
TEST_ALIAS == <<"t", "e", "s", "t">>
CUSTOM_HOST == <<"a", ".", "m", "y">>

\* values of the domain argument
Domains ==
    {LOGIN_ALIAS, TEST_ALIAS,
     CUSTOM_HOST,
     CUSTOM_HOST \o SALESFORCE_SUFFIX,
     CUSTOM_HOST \o SALESFORCE_SUFFIX \o <<"/">>,
     CUSTOM_HOST \o SALESFORCE_SUFFIX \o <<".", "a">>,
     LOGIN_ALIAS \o SALESFORCE_SUFFIX,
     HTTPS_PREFIX \o CUSTOM_HOST \o SALESFORCE_SUFFIX}

\* str.endswith
EndsWith(s, suffix) ==
    /\ Len(s) >= Len(suffix)
    /\ SubSeq(s, Len(s) - Len(suffix) + 1, Len(s)) = suffix

\* variant: the suffix is looked for anywhere in the domain
BaseUrlBySubstring(domain) ==
    IF domain \in {LOGIN_ALIAS, TEST_ALIAS}
    THEN HTTPS_PREFIX \o domain \o SALESFORCE_SUFFIX
    ELSE IF \E i \in 1..(Len(domain) - Len(SALESFORCE_SUFFIX) + 1) :
                SubSeq(domain, i, i + Len(SALESFORCE_SUFFIX) - 1)
                    = SALESFORCE_SUFFIX
         THEN HTTPS_PREFIX \o domain
         ELSE HTTPS_PREFIX \o domain \o SALESFORCE_SUFFIX

\* lines 88-93: base_url
BaseUrl(domain) ==
    IF domain \in {LOGIN_ALIAS, TEST_ALIAS}
    THEN HTTPS_PREFIX \o domain \o SALESFORCE_SUFFIX
    ELSE IF EndsWith(domain, SALESFORCE_SUFFIX)
         THEN HTTPS_PREFIX \o domain
         ELSE HTTPS_PREFIX \o domain \o SALESFORCE_SUFFIX

\* ---- exceptions and results of login
AUTH_ERROR == "SalesforceAuthError"

NoError == [type |-> "none", message |-> "", detail |-> <<>>]

AuthError(message, detail) ==
    [type |-> AUTH_ERROR, message |-> message, detail |-> detail]

\* a JSON string
JStr(s) == [type |-> "string", text |-> s, items |-> <<>>, fields |-> <<>>]

\* the version of the SOAP login URL (line 96) and of the fallbacks
FALLBACK_API_VERSION == JStr("58.0")

NoSession ==
    [session_id |-> <<>>, instance_url |-> <<>>, server_url |-> <<>>,
     user_id |-> <<>>, org_id |-> <<>>, user_name |-> <<>>,
     api_version |-> JStr("")]

\* variant: a response without a session id is passed on
SessionIdMissingRaisesNever(session_id) == FALSE

\* lines 203-204: `if not session_id`
SessionIdMissing(session_id) == session_id = <<>>

\* variant: a Fault element is not looked for
FaultOfNone(doc) == 0

\* line 189: root.find('.//soapenv:Fault', ns)
FaultOf(doc) == Find(doc, 1, "soapenv", "Fault")

\* lines 170-231: [error, result]; error.type = "none" when a dict is
\* returned
parse_login_response(answer) ==
    LET doc == answer.doc
        soap_fault == extract_soap_fault(doc)
        fault == FaultOf(doc)
        fault_string == FindChild(doc, fault, "faultstring")
        sf_result == Find(doc, 1, "sf", "result")
        result == IF sf_result # 0 THEN sf_result
                  ELSE find_element_by_local_name(doc, 1, "result")
        session_id == get_element_text(doc, result, "sessionId")
        server_url == get_element_text(doc, result, "serverUrl")
        sf_user_info == Find(doc, result, "sf", "userInfo")
        user_info == IF sf_user_info # 0 THEN sf_user_info
                     ELSE find_element_by_local_name(doc, result, "userInfo")
        TextIn(tag) == IF user_info # 0
                       THEN get_element_text(doc, user_info, tag) ELSE <<>>
    IN IF answer.status # 200
       THEN [error |-> IF soap_fault # <<>>
                       THEN AuthError("Login failed: <fault>", soap_fault)
                       ELSE AuthError("Login failed with HTTP <status>",
                                      <<>>),
             result |-> NoSession]
       ELSE IF doc = <<>>
       THEN [error |-> AuthError("Failed to parse login response", <<>>),
             result |-> NoSession]
       ELSE IF fault # 0
       THEN [error |-> AuthError("Login failed: <fault>",
                                 IF fault_string # 0
                                 THEN doc[fault_string].text
                                 ELSE <<"Unknown error">>),
             result |-> NoSession]
       ELSE IF result = 0
       THEN [error |-> AuthError(
                 "Could not parse login response - no result found", <<>>),
             result |-> NoSession]
       ELSE IF SessionIdMissing(session_id)
       THEN [error |-> AuthError("No session ID in response", <<>>),
             result |-> NoSession]
       ELSE [error |-> NoError,
             result |-> [session_id |-> session_id,
                         instance_url |-> extract_instance_url(server_url),
                         server_url |-> server_url,
                         user_id |-> TextIn("userId"),
                         org_id |-> TextIn("organizationId"),
                         user_name |-> TextIn("userFullName"),
                         api_version |-> JStr("")]]

\* ---- JSON values: [type, text, items, fields]; items are the elements of
\* a list, fields maps the keys of an object to their values
JNull == [type |-> "null", text |-> "", items |-> <<>>, fields |-> <<>>]

JNum(n) == [type |-> "number", text |-> n, items |-> <<>>, fields |-> <<>>]

JList(items) ==
    [type |-> "list", text |-> "", items |-> items, fields |-> <<>>]

JObj(fields) ==
    [type |-> "object", text |-> "", items |-> <<>>, fields |-> fields]

HasKey(v, key) == key \in DOMAIN v.fields

\* Python's truth value of a parsed JSON value
Truthy(v) ==
    CASE v.type = "list" -> v.items # <<>>
      [] v.type = "object" -> DOMAIN v.fields # {}
      [] v.type = "string" -> v.text # ""
      [] v.type = "number" -> v.text # "0"
      [] OTHER -> FALSE

\* entries of the list the version-discovery endpoint answers with
VersionEntry(version) ==
    JObj([k \in {"version", "label"} |->
            IF k = "version" THEN version ELSE JStr("Winter")])

\* what the GET of line 47 can produce; json = FALSE is a body that
\* response.json() cannot parse
DiscoveryAnswer(kind, status, json, body) ==
    [kind |-> kind, status |-> status, json |-> json, body |-> body]

DiscoveryAnswers ==
    {DiscoveryAnswer("exception", 0, FALSE, JNull),
     DiscoveryAnswer("response", 200, FALSE, JNull),
     DiscoveryAnswer("response", 503, FALSE, JNull),
     DiscoveryAnswer("response", 503, TRUE,
                     JList(<<VersionEntry(JStr("62.0"))>>))}
    \cup
    {DiscoveryAnswer("response", 200, TRUE, body) :
        body \in
            {JNull, JNum("62"), JStr("62.0"),
             JObj([k \in {"version"} |-> JStr("62.0")]),
             JList(<<>>),
             JList(<<VersionEntry(JStr("61.0"))>>),
             JList(<<VersionEntry(JStr("61.0")), VersionEntry(JStr("62.0"))>>),
             JList(<<VersionEntry(JStr("62.0")),
                     JObj([k \in {"label"} |-> JStr("Winter")])>>),
             JList(<<VersionEntry(JNull)>>),
             JList(<<JStr("62.0")>>)}}

\* lines 34-60: every exception of the try block (requests.get, json(),
\* len(), versions[-1], latest.get) ends in the fallback of line 60
get_latest_api_version(answer) ==
    LET versions == answer.body
        latest == versions.items[Len(versions.items)]
    IN IF /\ answer.kind = "response" /\ answer.status = 200 /\ answer.json
          /\ Truthy(versions)
          /\ versions.type = "list"
          /\ latest.type = "object"
       THEN IF HasKey(latest, "version") THEN latest.fields["version"]
            ELSE JStr("61.0")
       ELSE FALLBACK_API_VERSION

LoginIdle ==
    /\ lg_pc = "idle"
    /\ lg_domain = <<>>
    /\ lg_url = <<>>
    /\ lg_answer = NoPostAnswer
    /\ lg_session = NoSession
    /\ lg_error = NoError
    /\ lg_gets = <<>>
    /\ lg_self_version = JNull

\* lines 31-32: a new SalesforceAuth, login called with a domain
LoginStart ==
    /\ lg_pc = "start"
    /\ lg_domain \in Domains
    /\ lg_url = <<>>
    /\ lg_answer = NoPostAnswer
    /\ lg_session = NoSession
    /\ lg_error = NoError
    /\ lg_gets = <<>>
    /\ lg_self_version = JNull

LoginRaises(error) ==
    /\ lg_pc' = "raised"
    /\ lg_error' = error
    /\ UNCHANGED <<lg_session, lg_self_version>>

\* lines 120-132: the response is parsed; without an instance_url the
\* fallback version is used and no discovery request is made
PostAnswered(answer) ==
    LET parsed == parse_login_response(answer) IN
    IF parsed.error.type # "none"
    THEN LoginRaises(parsed.error)
    ELSE IF parsed.result.instance_url # <<>>
    THEN /\ lg_pc' = "discover"
         /\ lg_session' = parsed.result
         /\ UNCHANGED <<lg_error, lg_self_version>>
    ELSE /\ lg_pc' = "returned"
         /\ lg_session' =
                [parsed.result EXCEPT !.api_version = FALLBACK_API_VERSION]
         /\ lg_self_version' = FALLBACK_API_VERSION
         /\ UNCHANGED lg_error

\* lines 88-132 up to the discovery request
LoginPost ==
    /\ lg_pc = "start"
    /\ lg_url' = BaseUrl(lg_domain)
    /\ \E answer \in PostAnswers :
        /\ lg_answer' = answer
        /\ IF answer.kind = "exception"
           THEN \* lines 109-117: requests.post raised
                LoginRaises(AuthError("Network error during login", <<>>))
           ELSE PostAnswered(answer)
    /\ UNCHANGED <<lg_domain, lg_gets>>
    /\ UNCHANGED <<safeVars, retryVars, runVars, listVars, folderVars,
                 guiVars>>

\* lines 123-132 with get_latest_api_version: the discovery request and
\* the return of the session
LoginDiscover ==
    /\ lg_pc = "discover"
    /\ \E answer \in DiscoveryAnswers :
        LET api_version == get_latest_api_version(answer) IN
        /\ lg_gets' = Append(lg_gets, answer)
        /\ lg_session' = [lg_session EXCEPT !.api_version = api_version]
        /\ lg_self_version' = api_version
    /\ lg_pc' = "returned"
    /\ UNCHANGED <<lg_domain, lg_url, lg_answer, lg_error>>
    /\ UNCHANGED <<safeVars, retryVars, runVars, listVars, folderVars,
                 guiVars>>

NextLogin == LoginPost \/ LoginDiscover

(***************************************************************************)
(* SalesforceReportExporter.list_reports: the shape of the listing body.   *)
(***************************************************************************)
\* entries of a report listing
ReportEntries ==
    {JObj([k \in {"id", "name"} |-> IF k = "id" THEN JStr(r[1])
                                    ELSE JStr(r[2])]) :
        r \in {<<"00O1", "Sales">>, <<"00O2", "Leads">>}}

\* values a key of the listing body can hold, and bodies that are no object
ListedValues ==
    {JNull, JNum("7"), JStr("none"), JObj(<<>>)}
    \cup {JList(items) : items \in SeqsUpTo(ReportEntries, MaxListed)}

\* stands for a key that the object does not have
ABSENT == [type |-> "absent", text |-> "", items |-> <<>>, fields |-> <<>>]

\* the object with the given values under 'reports', 'records', 'totalSize'
ListingObject(in_reports, in_records, in_total) ==
    LET Value(k) == CASE k = "reports" -> in_reports
                      [] k = "records" -> in_records
                      [] OTHER -> in_total
        keys == {k \in {"reports", "records", "totalSize"} :
                    Value(k) # ABSENT}
    IN JObj([k \in keys |-> Value(k)])

ListingBodies ==
    ListedValues
    \cup {ListingObject(a, b, c) :
            a \in ListedValues \cup {ABSENT},
            b \in ListedValues \cup {ABSENT},
            c \in {ABSENT, JNum("7")}}

\* what line 161 and line 163 can produce: retry_request raises, or it
\* returns the 200 response, whose body response.json() parses or not
ListingAnswer(kind, json, body) ==
    [kind |-> kind, json |-> json, body |-> body]

ListingAnswers ==
    {ListingAnswer("exception", FALSE, JNull),
     ListingAnswer("response", FALSE, JNull)}
    \cup {ListingAnswer("response", TRUE, b) : b \in ListingBodies}

\* variant: 'records' is looked up before 'reports'
list_reports_records_first(data) ==
    IF data.type = "list" THEN data
    ELSE IF data.type = "object"
         THEN IF HasKey(data, "records") THEN data.fields["records"]
              ELSE IF HasKey(data, "reports") THEN data.fields["reports"]
              ELSE JList(<<>>)
         ELSE JList(<<>>)

\* lines 165-169: what list_reports makes of the parsed body
list_reports(data) ==
    IF data.type = "list" THEN data
    ELSE IF data.type = "object"
         THEN IF HasKey(data, "reports") THEN data.fields["reports"]
              ELSE IF HasKey(data, "records") THEN data.fields["records"]
              ELSE JList(<<>>)
         ELSE JList(<<>>)

ListIdle ==
    /\ ls_pc = "idle"
    /\ ls_answer = ListingAnswer("none", FALSE, JNull)
    /\ ls_result = JNull
    /\ ls_error = "none"

ListStart ==
    /\ ls_pc = "start"
    /\ ls_answer = ListingAnswer("none", FALSE, JNull)
    /\ ls_result = JNull
    /\ ls_error = "none"

\* line 161: retry_request raises, and so does list_reports
ListRequestFails ==
    /\ ls_pc = "start"
    /\ ls_answer' = ListingAnswer("exception", FALSE, JNull)
    /\ ls_pc' = "raised"
    /\ ls_error' = "Exception"
    /\ UNCHANGED ls_result
    /\ UNCHANGED <<safeVars, retryVars, runVars, authVars, folderVars,
                 guiVars>>

\* lines 161-169: retry_request returns the 200 response
ListAnswered ==
    /\ ls_pc = "start"
    /\ \E answer \in ListingAnswers :
        /\ answer.kind = "response"
        /\ ls_answer' = answer
        /\ IF answer.json
           THEN /\ ls_pc' = "returned"
                /\ ls_result' = list_reports(answer.body)
                /\ UNCHANGED ls_error
           ELSE \* response.json() raises
                /\ ls_pc' = "raised"
                /\ ls_error' = "JSONDecodeError"
                /\ UNCHANGED ls_result
    /\ UNCHANGED <<safeVars, retryVars, runVars, authVars, folderVars,
                 guiVars>>

NextList == ListRequestFails \/ ListAnswered

(***************************************************************************)
(* Report folders: SalesforceReportExporter.list_report_folders, which the *)
(* GUI calls (src/main.py) and src/exporter.py does not hold, and the      *)
(* GUI's handling of its result.  A folder name is a text of tokens; a     *)
(* folder is [has_name, name].                                             *)
(***************************************************************************)
Folder(has_name, name) == [has_name |-> has_name, name |-> name]

\* main.py line 365
SYSTEM_FOLDER_NAMES == {<<"Automated Process">>, <<"System">>, <<"Hidden">>}

\* the folders an org can hold
OrgFolderChoices ==
    {Folder(TRUE, name) : name \in SYSTEM_FOLDER_NAMES}
    \cup
    {Folder(TRUE, <<"_", "_", "x">>), Folder(TRUE, <<"_", "x">>),
     Folder(TRUE, <<"S", "a", "l", "e", "s">>),
     Folder(TRUE, <<>>), Folder(FALSE, <<>>)}

\* str.startswith
StartsWith(s, prefix) ==
    /\ Len(s) >= Len(prefix)
    /\ SubSeq(s, 1, Len(prefix)) = prefix

\* main.py lines 363-367: the condition of the list comprehension
ShownInGui(f) ==
    /\ f.has_name /\ f.name # <<>>
    /\ f.name \notin SYSTEM_FOLDER_NAMES
    /\ ~StartsWith(f.name, <<"_", "_">>)

\* variant: double-underscore names are let through
IsNoiseFolderByNameOnly(f) ==
    f.has_name /\ f.name \in SYSTEM_FOLDER_NAMES

\* spec 4.3: the system/noise folders (Automated Process, System, Hidden,
\* names starting with a double underscore)
IsNoiseFolder(f) ==
    /\ f.has_name
    /\ \/ f.name \in SYSTEM_FOLDER_NAMES
       \/ StartsWith(f.name, <<"_", "_">>)

\* spec 4.3: the org's report folders without the system/noise folders
list_report_folders(org_folders) ==
    SelectSeq(org_folders, LAMBDA f : ~IsNoiseFolder(f))

FolderIdle ==
    /\ fd_pc = "idle"
    /\ fd_org = <<>>
    /\ fd_listed = <<>>
    /\ fd_available = <<>>
    /\ fd_error = "none"

\* main.py lines 686-687: the worker thread is started after a login
FolderStart ==
    /\ fd_pc = "start"
    /\ fd_org \in SeqsUpTo(OrgFolderChoices, MaxFolders)
    /\ fd_listed = <<>>
    /\ fd_available = <<>>
    /\ fd_error = "none"

\* main.py lines 689-696: the worker lists the folders and emits them
LoadFoldersWorker ==
    /\ fd_pc = "start"
    /\ fd_listed' = list_report_folders(fd_org)
    /\ fd_pc' = "emitted"
    /\ UNCHANGED <<fd_org, fd_available, fd_error>>
    /\ UNCHANGED <<safeVars, retryVars, runVars, authVars, listVars,
                 guiVars>>

\* main.py lines 697-698: the listing raised
LoadFoldersWorkerFails ==
    /\ fd_pc = "start"
    /\ fd_error' = "Exception"
    /\ fd_pc' = "error"
    /\ UNCHANGED <<fd_org, fd_listed, fd_available>>
    /\ UNCHANGED <<safeVars, retryVars, runVars, authVars, listVars,
                 guiVars>>

\* main.py lines 361-374: the slot of folders_loaded
OnFoldersLoaded ==
    /\ fd_pc = "emitted"
    /\ fd_available' = SelectSeq(fd_listed, ShownInGui)
    /\ fd_pc' = "shown"
    /\ UNCHANGED <<fd_org, fd_listed, fd_error>>
    /\ UNCHANGED <<safeVars, retryVars, runVars, authVars, listVars,
                 guiVars>>

NextFolders == LoadFoldersWorker \/ LoadFoldersWorkerFails \/ OnFoldersLoaded

(***************************************************************************)
(* The main window (src/main.py): the handlers of the GUI thread and the   *)
(* worker threads.  A handler starts a worker thread; the thread ends by   *)
(* emitting one signal; Qt queues a signal emitted from another thread and *)
(* the GUI thread runs its slot later, one handler at a time, between the  *)
(* user's clicks.  A click reaches its handler only while the widget is    *)
(* enabled.  The two search boxes stay empty; the log, the labels and the  *)
(* progress bar are not kept.                                              *)
(***************************************************************************)
\* Python's None
NONE == "None"

\* the report ids an org may list, and its report folders
GuiReportIds == {ReportId(i) : i \in 1..MaxGuiReports}

GuiFolderIds == {"X"}

\* one emitted signal with its argument
Signal(name, listed, folders) ==
    [signal |-> name, reports |-> listed, folders |-> folders]

\* The slots run in the order in which the signals were emitted, so a
\* login or load thread that emits behind a waiting signal gives the GUI
\* thread the same handlers in the same order, between the same clicks, as
\* one that emits once that signal was handled: the model keeps the second.
\* An export thread emits whenever it ends.
LoadMayEmit == signal_queue = <<>>

\* the login and load threads started and not yet over, and their signals
\* not yet handled
Pending ==
    login_threads + folders_threads + reports_threads
    + Cardinality({i \in 1..Len(signal_queue) :
                      signal_queue[i].signal \notin {"finished", "error"}})

\* can_export for a button that only looks at the inputs
can_export_ignoring_running(session, zip, running, tab, combo, selected) ==
    IF tab = 0
    THEN session # NONE /\ zip # NONE /\ combo # NONE
    ELSE session # NONE /\ zip # NONE /\ selected # {}

\* lines 616-629: can_export in _update_buttons
can_export(session, zip, running, tab, combo, selected) ==
    IF tab = 0
    THEN session # NONE /\ zip # NONE /\ ~running /\ combo # NONE
    ELSE session # NONE /\ zip # NONE /\ ~running /\ selected # {}

\* lines 613-631: _update_buttons, on the state the handler leaves
update_buttons ==
    start_btn' = can_export(session_info', output_zip', export_running',
                            current_tab', folder_combo', selected_reports')

\* lines 601-611: _set_inputs_enabled; login_btn stands for the credential
\* inputs, login_btn and choose_btn, which are switched together
set_inputs_enabled(enabled) ==
    /\ login_btn' = enabled
    /\ update_buttons

\* lines 33-46 and the widget states _setup_ui leaves (lines 131, 162,
\* 210-225, 253-270)
MainWindowInit ==
    /\ session_info = NONE
    /\ output_zip = NONE
    /\ export_running = FALSE
    /\ available_reports = {}
    /\ selected_reports = {}
    /\ checkboxes = <<>>
    /\ current_tab = 0
    /\ folder_combo = NONE
    /\ folder_items = {}
    /\ folder_combo_enabled = FALSE
    /\ start_btn = FALSE
    /\ login_btn = TRUE
    /\ refresh_folders_btn = FALSE
    /\ refresh_reports_btn = FALSE
    /\ export_tabs = FALSE
    /\ login_threads = 0
    /\ folders_threads = 0
    /\ reports_threads = 0
    /\ export_threads = <<>>
    /\ signal_queue = <<>>

\* lines 634-667: the Login button; with empty credentials the handler
\* returns before it changes anything
on_login ==
    /\ login_btn
    /\ Pending < MaxPending
    /\ \E domain_given \in BOOLEAN :
         IF domain_given
         THEN /\ login_threads' = login_threads + 1
              /\ login_btn' = FALSE
         ELSE \* lines 655-658: disabled, warned, enabled again
              /\ login_btn' = TRUE
              /\ UNCHANGED login_threads
    /\ UNCHANGED <<session_info, output_zip, export_running, available_reports,
                   selected_reports, checkboxes, current_tab, folder_combo,
                   folder_items, folder_combo_enabled, refresh_folders_btn,
                   refresh_reports_btn, export_tabs, folders_threads,
                   reports_threads, export_threads, signal_queue>>
    /\ UNCHANGED <<safeVars, retryVars, runVars, authVars, listVars,
                   folderVars>>
    /\ update_buttons

\* lines 669-675: the login thread ends with one of its two signals
login_worker ==
    /\ login_threads > 0
    /\ LoadMayEmit
    /\ login_threads' = login_threads - 1
    /\ \E name \in {"login_success", "login_error"} :
         signal_queue' = Append(signal_queue, Signal(name, {}, {}))
    /\ UNCHANGED <<session_info, output_zip, export_running, available_reports,
                   selected_reports, checkboxes, current_tab, folder_combo,
                   folder_items, folder_combo_enabled, start_btn, login_btn,
                   refresh_folders_btn, refresh_reports_btn, export_tabs,
                   folders_threads, reports_threads, export_threads>>
    /\ UNCHANGED <<safeVars, retryVars, runVars, authVars, listVars,
                   folderVars>>

\* the GUI thread takes the signal at the head of the queue
Handles(name) ==
    /\ signal_queue # <<>>
    /\ Head(signal_queue).signal = name
    /\ signal_queue' = Tail(signal_queue)

\* lines 323-352: _on_login_success; _update_buttons runs inside
\* _set_inputs_enabled (line 341), before on_refresh_reports clears the
\* selection (line 711)
on_login_success ==
    /\ Handles("login_success")
    /\ session_info' = "session"
    /\ login_btn' = TRUE
    /\ start_btn' = can_export(session_info', output_zip, export_running,
                               current_tab, folder_combo, selected_reports)
    /\ export_tabs' = TRUE
    \* on_refresh_folders, lines 678-687
    /\ refresh_folders_btn' = FALSE
    /\ folder_combo_enabled' = FALSE
    /\ folders_threads' = folders_threads + 1
    \* on_refresh_reports, lines 701-715
    /\ refresh_reports_btn' = FALSE
    /\ selected_reports' = {}
    /\ reports_threads' = reports_threads + 1
    /\ UNCHANGED <<output_zip, export_running, available_reports, checkboxes,
                   current_tab, folder_combo, folder_items, login_threads,
                   export_threads>>
    /\ UNCHANGED <<safeVars, retryVars, runVars, authVars, listVars,
                   folderVars>>

\* lines 354-359: _on_login_error
on_login_error ==
    /\ Handles("login_error")
    /\ UNCHANGED <<session_info, output_zip, export_running, available_reports,
                   selected_reports, checkboxes, current_tab, folder_combo,
                   folder_items, folder_combo_enabled, refresh_folders_btn,
                   refresh_reports_btn, export_tabs, login_threads,
                   folders_threads, reports_threads, export_threads>>
    /\ UNCHANGED <<safeVars, retryVars, runVars, authVars, listVars,
                   folderVars>>
    /\ set_inputs_enabled(TRUE)

\* lines 678-687: the Refresh button of the folder tab
on_refresh_folders ==
    /\ export_tabs /\ refresh_folders_btn
    /\ session_info # NONE
    /\ Pending < MaxPending
    /\ refresh_folders_btn' = FALSE
    /\ folder_combo_enabled' = FALSE
    /\ folders_threads' = folders_threads + 1
    /\ UNCHANGED <<session_info, output_zip, export_running, available_reports,
                   selected_reports, checkboxes, current_tab, folder_combo,
                   folder_items, start_btn, login_btn, refresh_reports_btn,
                   export_tabs, login_threads, reports_threads, export_threads,
                   signal_queue>>
    /\ UNCHANGED <<safeVars, retryVars, runVars, authVars, listVars,
                   folderVars>>

\* lines 689-698: the folder thread ends with one of its two signals
load_folders_worker ==
    /\ folders_threads > 0
    /\ LoadMayEmit
    /\ folders_threads' = folders_threads - 1
    /\ \/ \E folders \in SUBSET GuiFolderIds :
            signal_queue' = Append(signal_queue,
                                   Signal("folders_loaded", {}, folders))
       \/ signal_queue' = Append(signal_queue, Signal("folders_error", {}, {}))
    /\ UNCHANGED <<session_info, output_zip, export_running, available_reports,
                   selected_reports, checkboxes, current_tab, folder_combo,
                   folder_items, folder_combo_enabled, start_btn, login_btn,
                   refresh_folders_btn, refresh_reports_btn, export_tabs,
                   login_threads, reports_threads, export_threads>>
    /\ UNCHANGED <<safeVars, retryVars, runVars, authVars, listVars,
                   folderVars>>

\* lines 361-414: _on_folders_loaded and _populate_folder_combo on the
\* folders left by the filter; the first item added becomes the current one
on_folders_loaded ==
    /\ Handles("folders_loaded")
    /\ LET folders == Head(signal_queue).folders
       IN /\ folder_items' = IF folders = {} THEN {}
                             ELSE {"ALL"} \cup folders
          /\ folder_combo' = IF folders = {} THEN NONE ELSE "ALL"
          /\ folder_combo_enabled' = (folders # {})
    /\ refresh_folders_btn' = TRUE
    /\ UNCHANGED <<session_info, output_zip, export_running, available_reports,
                   selected_reports, checkboxes, current_tab, login_btn,
                   refresh_reports_btn, export_tabs, login_threads,
                   folders_threads, reports_threads, export_threads>>
    /\ UNCHANGED <<safeVars, retryVars, runVars, authVars, listVars,
                   folderVars>>
    /\ update_buttons

\* lines 421-428: _on_folders_error; the item it adds changes the current
\* index, so _on_folder_changed (line 220) runs _update_buttons
on_folders_error ==
    /\ Handles("folders_error")
    /\ folder_items' = {}
    /\ folder_combo' = NONE
    /\ folder_combo_enabled' = FALSE
    /\ refresh_folders_btn' = TRUE
    /\ UNCHANGED <<session_info, output_zip, export_running, available_reports,
                   selected_reports, checkboxes, current_tab, login_btn,
                   refresh_reports_btn, export_tabs, login_threads,
                   folders_threads, reports_threads, export_threads>>
    /\ UNCHANGED <<safeVars, retryVars, runVars, authVars, listVars,
                   folderVars>>
    /\ update_buttons

\* lines 430-447: the user picks another item of the folder combo
on_folder_changed ==
    /\ export_tabs /\ folder_combo_enabled
    /\ \E item \in folder_items \ {folder_combo} : folder_combo' = item
    /\ UNCHANGED <<session_info, output_zip, export_running, available_reports,
                   selected_reports, checkboxes, current_tab, folder_items,
                   folder_combo_enabled, login_btn, refresh_folders_btn,
                   refresh_reports_btn, export_tabs, login_threads,
                   folders_threads, reports_threads, export_threads,
                   signal_queue>>
    /\ UNCHANGED <<safeVars, retryVars, runVars, authVars, listVars,
                   folderVars>>
    /\ update_buttons

\* lines 700-715: the Refresh button of the report tab; the checkboxes of
\* the list shown stay in the layout and _update_buttons is not called
on_refresh_reports ==
    /\ export_tabs /\ refresh_reports_btn
    /\ session_info # NONE
    /\ Pending < MaxPending
    /\ refresh_reports_btn' = FALSE
    /\ selected_reports' = {}
    /\ reports_threads' = reports_threads + 1
    /\ UNCHANGED <<session_info, output_zip, export_running, available_reports,
                   checkboxes, current_tab, folder_combo, folder_items,
                   folder_combo_enabled, start_btn, login_btn,
                   refresh_folders_btn, export_tabs, login_threads,
                   folders_threads, export_threads, signal_queue>>
    /\ UNCHANGED <<safeVars, retryVars, runVars, authVars, listVars,
                   folderVars>>

\* lines 717-726: the report thread ends with one of its two signals; the
\* list is what the org holds when the thread asks
load_reports_worker ==
    /\ reports_threads > 0
    /\ LoadMayEmit
    /\ reports_threads' = reports_threads - 1
    /\ \/ \E listed \in SUBSET GuiReportIds :
            signal_queue' = Append(signal_queue,
                                   Signal("reports_loaded", listed, {}))
       \/ signal_queue' = Append(signal_queue, Signal("reports_error", {}, {}))
    /\ UNCHANGED <<session_info, output_zip, export_running, available_reports,
                   selected_reports, checkboxes, current_tab, folder_combo,
                   folder_items, folder_combo_enabled, start_btn, login_btn,
                   refresh_folders_btn, refresh_reports_btn, export_tabs,
                   login_threads, folders_threads, export_threads>>
    /\ UNCHANGED <<safeVars, retryVars, runVars, authVars, listVars,
                   folderVars>>

\* lines 474-519: _populate_reports_list: one checkbox per report, checked
\* when its id is selected
populate_reports_list(listed, selected) ==
    [id \in listed |-> id \in selected]

\* lines 456-467: _on_reports_loaded
on_reports_loaded ==
    /\ Handles("reports_loaded")
    /\ available_reports' = Head(signal_queue).reports
    /\ checkboxes' = populate_reports_list(available_reports', selected_reports)
    /\ refresh_reports_btn' = TRUE
    /\ UNCHANGED <<session_info, output_zip, export_running, selected_reports,
                   current_tab, folder_combo, folder_items,
                   folder_combo_enabled, login_btn, refresh_folders_btn,
                   export_tabs, login_threads, folders_threads,
                   reports_threads, export_threads>>
    /\ UNCHANGED <<safeVars, retryVars, runVars, authVars, listVars,
                   folderVars>>
    /\ update_buttons

\* lines 469-472: _on_reports_error logs and warns
on_reports_error ==
    /\ Handles("reports_error")
    /\ UNCHANGED <<session_info, output_zip, export_running, available_reports,
                   selected_reports, checkboxes, current_tab, folder_combo,
                   folder_items, folder_combo_enabled, start_btn, login_btn,
                   refresh_folders_btn, refresh_reports_btn, export_tabs,
                   login_threads, folders_threads, reports_threads,
                   export_threads>>
    /\ UNCHANGED <<safeVars, retryVars, runVars, authVars, listVars,
                   folderVars>>

\* lines 522-533: the user ticks or unticks a checkbox of the list shown
on_report_checkbox_changed ==
    /\ export_tabs
    /\ \E report_id \in DOMAIN checkboxes :
         /\ checkboxes' = [checkboxes EXCEPT ![report_id] = ~@]
         /\ selected_reports' = IF checkboxes'[report_id]
                                THEN selected_reports \cup {report_id}
                                ELSE selected_reports \ {report_id}
    /\ UNCHANGED <<session_info, output_zip, export_running, available_reports,
                   current_tab, folder_combo, folder_items,
                   folder_combo_enabled, login_btn, refresh_folders_btn,
                   refresh_reports_btn, export_tabs, login_threads,
                   folders_threads, reports_threads, export_threads,
                   signal_queue>>
    /\ UNCHANGED <<safeVars, retryVars, runVars, authVars, listVars,
                   folderVars>>
    /\ update_buttons

\* lines 540-557: Select All
on_select_all_reports ==
    /\ export_tabs /\ refresh_reports_btn
    /\ selected_reports' = selected_reports \cup available_reports
    /\ checkboxes' = populate_reports_list(available_reports, selected_reports')
    /\ UNCHANGED <<session_info, output_zip, export_running, available_reports,
                   current_tab, folder_combo, folder_items,
                   folder_combo_enabled, login_btn, refresh_folders_btn,
                   refresh_reports_btn, export_tabs, login_threads,
                   folders_threads, reports_threads, export_threads,
                   signal_queue>>
    /\ UNCHANGED <<safeVars, retryVars, runVars, authVars, listVars,
                   folderVars>>
    /\ update_buttons

\* lines 559-564: Clear All
on_deselect_all_reports ==
    /\ export_tabs /\ refresh_reports_btn
    /\ selected_reports' = {}
    /\ checkboxes' = populate_reports_list(available_reports, selected_reports')
    /\ UNCHANGED <<session_info, output_zip, export_running, available_reports,
                   current_tab, folder_combo, folder_items,
                   folder_combo_enabled, login_btn, refresh_folders_btn,
                   refresh_reports_btn, export_tabs, login_threads,
                   folders_threads, reports_threads, export_threads,
                   signal_queue>>
    /\ UNCHANGED <<safeVars, retryVars, runVars, authVars, listVars,
                   folderVars>>
    /\ update_buttons

\* lines 728-751: Choose, with a path picked in the dialog
choose_path ==
    /\ login_btn
    /\ output_zip' = "path"
    /\ UNCHANGED <<session_info, export_running, available_reports,
                   selected_reports, checkboxes, current_tab, folder_combo,
                   folder_items, folder_combo_enabled, login_btn,
                   refresh_folders_btn, refresh_reports_btn, export_tabs,
                   login_threads, folders_threads, reports_threads,
                   export_threads, signal_queue>>
    /\ UNCHANGED <<safeVars, retryVars, runVars, authVars, listVars,
                   folderVars>>
    /\ update_buttons

\* line 228: the user turns to the other tab; no slot is connected to it
tab_changed ==
    /\ export_tabs
    /\ current_tab' = 1 - current_tab
    /\ UNCHANGED <<session_info, output_zip, export_running, available_reports,
                   selected_reports, checkboxes, folder_combo, folder_items,
                   folder_combo_enabled, start_btn, login_btn,
                   refresh_folders_btn, refresh_reports_btn, export_tabs,
                   login_threads, folders_threads, reports_threads,
                   export_threads, signal_queue>>
    /\ UNCHANGED <<safeVars, retryVars, runVars, authVars, listVars,
                   folderVars>>

\* lines 753-805: Start Export; where a check fails the handler warns and
\* returns with nothing changed
on_start ==
    /\ start_btn
    /\ session_info # NONE
    /\ output_zip # NONE
    /\ IF current_tab = 0
       THEN /\ folder_combo # NONE
            /\ export_threads' = Append(export_threads,
                                        WorkerFolderScope(folder_combo))
       ELSE /\ selected_reports # {}
            /\ export_threads' = Append(export_threads,
                                        WorkerSelectedScope(selected_reports))
    /\ export_running' = TRUE
    /\ UNCHANGED <<session_info, output_zip, available_reports,
                   selected_reports, checkboxes, current_tab, folder_combo,
                   folder_items, folder_combo_enabled, refresh_folders_btn,
                   refresh_reports_btn, export_tabs, login_threads,
                   folders_threads, reports_threads, signal_queue>>
    /\ UNCHANGED <<safeVars, retryVars, runVars, authVars, listVars,
                   folderVars>>
    /\ set_inputs_enabled(FALSE)

\* the export worker with a finally clause that reports the end as well
export_worker_signals_twice(call) ==
    IF call = "result" THEN <<Signal("finished", {}, {})>>
    ELSE <<Signal("error", {}, {}), Signal("finished", {}, {})>>

\* lines 807-850: what an export thread emits: finished when the exporter's
\* call returned (lines 827, 848), error when anything in the try block
\* raised (lines 828-829, 849-850)
export_worker_signals(call) ==
    IF call = "result" THEN <<Signal("finished", {}, {})>>
    ELSE <<Signal("error", {}, {})>>

\* lines 807-850: an export thread ends
export_worker ==
    /\ \E i \in 1..Len(export_threads), call \in {"result", "exception"} :
         /\ export_threads' = [k \in 1..(Len(export_threads) - 1) |->
                                  IF k < i THEN export_threads[k]
                                  ELSE export_threads[k + 1]]
         /\ signal_queue' = signal_queue \o export_worker_signals(call)
    /\ UNCHANGED <<session_info, output_zip, export_running, available_reports,
                   selected_reports, checkboxes, current_tab, folder_combo,
                   folder_items, folder_combo_enabled, start_btn, login_btn,
                   refresh_folders_btn, refresh_reports_btn, export_tabs,
                   login_threads, folders_threads, reports_threads>>
    /\ UNCHANGED <<safeVars, retryVars, runVars, authVars, listVars,
                   folderVars>>

\* lines 852-874: _on_export_finished
on_export_finished ==
    /\ Handles("finished")
    /\ export_running' = FALSE
    /\ UNCHANGED <<session_info, output_zip, available_reports,
                   selected_reports, checkboxes, current_tab, folder_combo,
                   folder_items, folder_combo_enabled, refresh_folders_btn,
                   refresh_reports_btn, export_tabs, login_threads,
                   folders_threads, reports_threads, export_threads>>
    /\ UNCHANGED <<safeVars, retryVars, runVars, authVars, listVars,
                   folderVars>>
    /\ set_inputs_enabled(TRUE)

\* lines 876-882: _on_export_error
on_export_error ==
    /\ Handles("error")
    /\ export_running' = FALSE
    /\ UNCHANGED <<session_info, output_zip, available_reports,
                   selected_reports, checkboxes, current_tab, folder_combo,
                   folder_items, folder_combo_enabled, refresh_folders_btn,
                   refresh_reports_btn, export_tabs, login_threads,
                   folders_threads, reports_threads, export_threads>>
    /\ UNCHANGED <<safeVars, retryVars, runVars, authVars, listVars,
                   folderVars>>
    /\ set_inputs_enabled(TRUE)

\* the slots of the queued signals (lines 48-58)
HandleSignal ==
    \/ on_login_success
    \/ on_login_error
    \/ on_folders_loaded
    \/ on_folders_error
    \/ on_reports_loaded
    \/ on_reports_error
    \/ on_export_finished
    \/ on_export_error

\* the worker threads
WorkerEnds ==
    \/ login_worker
    \/ load_folders_worker
    \/ load_reports_worker
    \/ export_worker

NextGui ==
    \/ on_login
    \/ on_refresh_folders
    \/ on_folder_changed
    \/ on_refresh_reports
    \/ on_report_checkbox_changed
    \/ on_select_all_reports
    \/ on_deselect_all_reports
    \/ choose_path
    \/ tab_changed
    \/ on_start
    \/ WorkerEnds
    \/ HandleSignal

(***************************************************************************)
(* The specifications.                                                     *)
(***************************************************************************)
InitSafe ==
    /\ SafeStart /\ RetryIdle /\ RunIdle /\ LoginIdle /\ ListIdle /\ FolderIdle
    /\ MainWindowInit
SpecSafe == InitSafe /\ [][NextSafe]_vars

InitRetry ==
    /\ SafeIdle /\ RetryStart /\ RunIdle /\ LoginIdle /\ ListIdle /\ FolderIdle
    /\ MainWindowInit
SpecRetry == InitRetry /\ [][NextRetry]_vars

\* the call runs on: requests.get returns or raises within its timeout and
\* time.sleep returns, so a step that can be taken is taken
SpecRetryFair == SpecRetry /\ WF_vars(NextRetry)

\* a run as the GUI starts it: a progress callback (main.py line 813) and
\* the default delay_between_reports, which is positive
Init ==
    /\ SafeIdle /\ RetryIdle /\ RunStartWith(Catalogs, {ExportAll}, {TRUE}, {{}}, {1}, {"\n"})
    /\ LoginIdle /\ ListIdle /\ FolderIdle
    /\ MainWindowInit
Next == NextRun
Spec == Init /\ [][Next]_vars

InitLogin ==
    /\ SafeIdle /\ RetryIdle /\ RunIdle /\ LoginStart /\ ListIdle /\ FolderIdle
    /\ MainWindowInit
SpecLogin == InitLogin /\ [][NextLogin]_vars

InitList ==
    /\ SafeIdle /\ RetryIdle /\ RunIdle /\ LoginIdle /\ ListStart /\ FolderIdle
    /\ MainWindowInit
SpecList == InitList /\ [][NextList]_vars

InitFolders ==
    /\ SafeIdle /\ RetryIdle /\ RunIdle /\ LoginIdle /\ ListIdle /\ FolderStart
    /\ MainWindowInit
SpecFolders == InitFolders /\ [][NextFolders]_vars

\* a run over a catalog of at most one report, on POSIX or on Windows
\* (os.linesep), the export request answered with any body of at most
\* MaxBody tokens
InitCsv ==
    /\ SafeIdle /\ RetryIdle
    /\ RunStartWith({c \in CatalogsOver({<<"S">>}, {"X"}) : Len(c) <= 1},
                    {ExportAll}, {FALSE}, {{}}, {0}, {"\n", "\r\n"})
    /\ LoginIdle /\ ListIdle /\ FolderIdle
    /\ MainWindowInit
NextCsv ==
    \/ Mkdtemp
    \/ ListReports
    \/ ListReportsFails
    \/ WriteEmptyZip
    \/ ExportReportWith(AllHttpOutcomes)
    \/ CreateZip
    \/ Cleanup
SpecCsv == InitCsv /\ [][NextCsv]_vars

\* a run with or without a progress callback, which raises at any of its
\* calls, and with a delay of zero or more
InitProgress ==
    /\ SafeIdle /\ RetryIdle
    /\ RunStartWith(CatalogsOver({<<"S">>}, {"X"}), {ExportAll}, BOOLEAN,
                    SUBSET (1..MaxReports), {0, 1}, {"\n"})
    /\ LoginIdle /\ ListIdle /\ FolderIdle
    /\ MainWindowInit
SpecProgress == InitProgress /\ [][Next]_vars

\* a run started by the GUI's workers: _export_worker_folder with "ALL" or
\* a folder id, _export_worker_selected with a set of report ids that is
\* not empty (src/main.py line 789), with the workers' callback and the
\* default delay; the reports are in two folders
InitScope ==
    /\ SafeIdle /\ RetryIdle
    /\ RunStartWith(CatalogsOver({<<"S">>, <<"S", "/", "_", "2">>}, {"X", "Y"}),
                    {WorkerFolderScope(f) : f \in {"ALL", "X", "Y"}}
                    \cup {WorkerSelectedScope(ids) :
                            ids \in SUBSET {ReportId(i) : i \in 1..MaxReports}
                                    \ {{}}},
                    {TRUE}, {{}}, {1}, {"\n"})
    /\ LoginIdle /\ ListIdle /\ FolderIdle
    /\ MainWindowInit
NextScope ==
    \/ Mkdtemp
    \/ ListReports
    \/ ListReportsFails
    \/ WriteEmptyZip
    \/ ExportReportWith({[kind |-> "raise", body |-> <<>>],
                         [kind |-> "response", body |-> CsvBody]})
    \/ CreateZip
    \/ Cleanup
SpecScope == InitScope /\ [][NextScope]_vars

\* the main window after construction, before any click
InitGui ==
    /\ SafeIdle /\ RetryIdle /\ RunIdle /\ LoginIdle /\ ListIdle /\ FolderIdle
    /\ MainWindowInit
SpecGui == InitGui /\ [][NextGui]_vars

\* an export thread ends (the exporter's call returns or raises) and the
\* event loop of the GUI thread runs the slot of every queued signal
SpecGuiFair == SpecGui /\ WF_vars(export_worker) /\ WF_vars(HandleSignal)

(***************************************************************************)
(* The claims.                                                             *)
(***************************************************************************)
Last(q) == q[Len(q)]

\* the sanitized base name of the i-th report of the catalog
BaseOf(i) == safe_filename(ReportName(catalog[i]), MAX_LENGTH)

\* C1: every run that returns an ExportResult has
\* len(successful) + len(failed) = total, and total is the number of reports
\* the catalog listing gave.
C1_CountsAddUp ==
    outcome.kind = "result" =>
        /\ Len(outcome.successful) + Len(outcome.failed) = outcome.total
        /\ outcome.total = Len(catalog)

\* C1 witness: a returned run of three reports with successes and failures.
C1_Witness ==
    /\ outcome.kind = "result"
    /\ outcome.total = 3
    /\ Len(outcome.successful) = 2
    /\ Len(outcome.failed) = 1

\* C2: immediately before packaging the working directory holds exactly one
\* file per report of the catalog; for an empty catalog the one placeholder
\* is the only entry of the ZIP.
C2_OneFilePerReport ==
    /\ pc = "packaging" => Cardinality(DOMAIN tmp_files) = total
    /\ (outcome.kind = "result" /\ outcome.total = 0) => Len(zip_entries) = 1

\* C3: no two reports of a run are assigned the same filename.
C3_UniqueFilenames ==
    \A i, j \in 1..Len(assigned) : i # j => assigned[i] # assigned[j]

\* C4: among the reports with the same sanitized base B, the first in
\* catalog order is assigned B.csv and the k-th (k >= 2) B_k.csv.
C4_CollisionPolicy ==
    LET n == Len(assigned)
        bases == <<>> \o [i \in 1..n |-> BaseOf(i)]
    IN \A i \in 1..n :
        LET k == Cardinality({j \in 1..i : bases[j] = bases[i]})
        IN assigned[i] = IF k = 1 THEN bases[i] \o CSV_EXT
                         ELSE bases[i] \o <<"_">> \o IntToStr(k) \o CSV_EXT

\* C4 witness: three reports named Sales-like "S" got S.csv, S_2.csv, S_3.csv.
C4_Witness ==
    assigned = << <<"S">> \o CSV_EXT,
                  <<"S", "_", "2">> \o CSV_EXT,
                  <<"S", "_", "3">> \o CSV_EXT >>

\* C5: safe_filename is idempotent, also on names longer than the cap:
\* safe_filename(safe_filename(n)) = safe_filename(n).
C5_SanitizeIdempotent == sf_pc = "twice" => sf_twice = sf_once

\* the errors that may leave a run: listing, the stub's write, the ZIP
EscalatingErrors == {"listing failed", "stub write failed", "zip failed"}

\* a step in which the Export Engine failed for the report at hand
C6_EngineFailed ==
    /\ Len(engine_log') = Len(engine_log) + 1
    /\ ~Last(engine_log').ok

C6_Recorded ==
    LET report == reports[completed + 1]
    IN /\ failed' = Append(failed,
                      [id |-> report.id, name |-> ReportName(report),
                       type |-> report.reportFormat,
                       error |-> Last(engine_log').error])
       /\ successful' = successful

C6_Step ==
    C6_EngineFailed =>
        /\ C6_Recorded
        /\ \/ pending' = RaisedOutcome("stub write failed")
           \/ /\ pending' = NoOutcome
              /\ Last(assigned') \in DOMAIN tmp_files'
              /\ tmp_files'[Last(assigned')].kind = "stub"
              /\ tmp_files'[Last(assigned')].error = Last(engine_log').error
              /\ completed' = completed + 1
              /\ pc' = IF completed' < Len(catalog) THEN "exporting"
                       ELSE "packaging"

C6_Ends ==
    /\ outcome.kind = "exception" => outcome.error \in EscalatingErrors
    /\ outcome.kind = "result" => Len(engine_log) = Len(catalog)

C7_CleanupAlways ==
    outcome # NoOutcome => (cleanup_tried /\ outcome = pending)

\* C7 witness: ZIP assembly raised, rmtree raised too, the caller got the
\* ZIP error.
C7_Witness ==
    /\ pc = "done"
    /\ tmp_exists
    /\ outcome = RaisedOutcome("zip failed")

PhaseRank(p) ==
    CASE p = "INIT" -> 1
      [] p = "LISTING" -> 2
      [] p = "EXPORTING" -> 3
      [] p = "PACKAGING" -> 4
      [] p = "CLEANUP" -> 5
      [] OTHER -> 6

Count(q, p) == Cardinality({i \in 1..Len(q) : q[i] = p})

\* C8: the phases of a run come in the order INIT, LISTING, EXPORTING (once
\* per report), PACKAGING, DONE: no export before the listing returned,
\* packaging only after every report, the result only after packaging.
C8_PhaseOrder ==
    /\ \A i, j \in 1..Len(trace) :
          i < j => /\ PhaseRank(trace[i]) <= PhaseRank(trace[j])
                   /\ (trace[i] = trace[j] => trace[i] = "EXPORTING")
    /\ Count(trace, "EXPORTING") > 0 => reports = catalog
    /\ Count(trace, "PACKAGING") = 1 =>
          /\ Count(trace, "EXPORTING") = Len(catalog)
          /\ completed = Len(catalog)
    /\ outcome.kind = "result" =>
          /\ Count(trace, "PACKAGING") = 1
          /\ zip_file = "complete"
          /\ Last(trace) = "DONE"

\* C8 witness: a run of three reports that returned.
C8_Witness ==
    /\ outcome.kind = "result"
    /\ trace = <<"INIT", "LISTING", "EXPORTING", "EXPORTING", "EXPORTING",
                 "PACKAGING", "CLEANUP", "DONE">>

\* C9: with an empty catalog the ZIP holds only _README.txt (no summary, no
\* report file), the result has total 0 and empty successful and failed,
\* and neither the Export Engine nor the progress callback is called.
C9_EmptyCatalog ==
    (Len(catalog) = 0 /\ (pending.kind = "result" \/ outcome.kind = "result")) =>
        /\ zip_entries = <<README_NAME>>
        /\ zip_summary = NoSummary
        /\ pending = ResultOutcome(0, <<>>, <<>>)
        /\ engine_calls = 0
        /\ progress_calls = <<>>
        /\ (outcome.kind = "result" => outcome = pending)

\* C9 witness: a run with a callback and an empty catalog returned.
C9_Witness ==
    /\ Len(catalog) = 0
    /\ has_callback
    /\ outcome.kind = "result"

\* a response whose status is neither 200 nor retryable
C10_OtherStatus(seen) ==
    /\ seen.what = "status"
    /\ seen.status # 200
    /\ seen.status \notin RetryableStatuses

\* C10: a response whose status is neither 200 nor retryable makes the call
\* raise at once: no wait and no further request follow it.
C10_OtherStatusRaisesAtOnce ==
    \A i \in 1..Len(rr_requests) :
        C10_OtherStatus(rr_requests[i]) =>
            /\ i = Len(rr_requests)
            /\ Len(rr_sleeps) = rr_requests[i].sleeps_before
            /\ rr_pc = "raised"

\* the wait that followed the i-th request, when one did
C11_Waited(i) == Len(rr_sleeps) > rr_requests[i].sleeps_before

C11_Wait(i) == rr_sleeps[rr_requests[i].sleeps_before + 1]

\* a counter that starts at 1, doubles after every wait and stops at the cap
C11_Counter(waits) == Min(2 ^ waits, BACKOFF_CAP)

\* C11: the wait after a retryable status is the Retry-After value when the
\* header parses as an integer, and otherwise the backoff counter, which
\* starts at 1, doubles after every wait and is capped at 60, so that a
\* Retry-After value does not change the counter later responses use.
C11_WaitOnRetryableStatus ==
    \A i \in 1..Len(rr_requests) :
        LET seen == rr_requests[i]
            parsed == ParseInt(seen.retry_after)
        IN (/\ seen.what = "status"
            /\ seen.status \in RetryableStatuses
            /\ C11_Waited(i))
           => C11_Wait(i) = IF parsed.ok THEN parsed.value
                            ELSE C11_Counter(seen.sleeps_before)

\* the requests so far are retryable statuses only
C12_OnlyRetryable(n) ==
    \A i \in 1..n :
        /\ rr_requests[i].what = "status"
        /\ rr_requests[i].status \in RetryableStatuses

\* C12: k retryable statuses followed by a 200, with k + 1 <= max_retries,
\* end in the 200 being returned after exactly k waits and k + 1 requests:
\* after k < max_retries retryable statuses and k waits the call goes on to
\* request number k + 1, and a 200 there returns without a further wait.
C12_RetryThenSuccess ==
    LET n == Len(rr_requests) IN
    /\ (n < max_retries /\ C12_OnlyRetryable(n))
         => (rr_pc = "request" /\ Len(rr_sleeps) = n)
    /\ (n > 0 /\ C12_OnlyRetryable(n - 1)
          /\ rr_requests[n].what = "status" /\ rr_requests[n].status = 200)
         => /\ rr_pc = "returned"
            /\ rr_result.kind = "returned"
            /\ Len(rr_sleeps) = n - 1
            /\ n <= max_retries

\* one step of the call in which requests.get raised
C13_ExceptionStep ==
    /\ rr_pc = "request"
    /\ Len(rr_requests') = Len(rr_requests) + 1
    /\ Last(rr_requests').what \in GetExceptions

C13_Step ==
    C13_ExceptionStep =>
        IF Len(rr_requests') < max_retries
        THEN /\ rr_sleeps' = Append(rr_sleeps, backoff)
             /\ backoff' = backoff * 2
             /\ rr_pc' = "request"
        ELSE /\ rr_sleeps' = rr_sleeps
             /\ rr_pc' = "raised"
             /\ rr_result' = [kind |-> "raised",
                              error |-> Last(rr_requests').what]

\* C13: an exception of requests.get on an attempt that is not the last is
\* followed by a wait of the current backoff, which is then doubled without
\* a cap, and by another attempt; on the last attempt the exception goes to
\* the caller as it is, with no wait.
C13_ExceptionRetried == [][C13_Step]_vars

\* an exception was retried with the backoff beyond the status branch's cap
C13_Witness ==
    /\ rr_pc = "request"
    /\ rr_requests # <<>>
    /\ Last(rr_requests).what \in GetExceptions
    /\ backoff = 2 * BACKOFF_CAP
    /\ Last(rr_sleeps) = BACKOFF_CAP

\* C14: when every attempt is used up without a 200 and without an
\* exception going to the caller, the failure raised after the loop names
\* the last error seen, never an absent one.
C14_SynthesizedNamesLastError ==
    (rr_result.kind = "raised_after_retries" /\ rr_requests # <<>>)
        => rr_result.error # "None"

\* the login POST was answered 200 with a result element that has no
\* sessionId element, or one without text
C15_NoSessionId ==
    /\ lg_answer.kind = "response"
    /\ lg_answer.status = 200
    /\ lg_answer.wellformed
    /\ lg_answer.result # "absent"
    /\ lg_answer.sid \in {"absent", "empty"}

\* C15: a login answered 200 whose result has no or an empty sessionId
\* raises SalesforceAuthError, returns no session, and makes no
\* version-discovery request.
C15_MissingSessionIdRaises ==
    C15_NoSessionId =>
        /\ lg_pc = "raised"
        /\ lg_error.type = AUTH_ERROR
        /\ lg_session = NoSession
        /\ lg_gets = <<>>

\* a fault-free 200 whose result lacks the session id was rejected for that
C15_Witness ==
    /\ C15_NoSessionId
    /\ lg_answer.fault = "none"
    /\ lg_answer.surl = "https"
    /\ lg_pc = "raised"
    /\ lg_error.message = "No session ID in response"

\* the login POST was answered 200 with well-formed XML, no SOAP Fault and
\* a result element holding a sessionId with text
C16_GoodAnswer ==
    /\ lg_answer.kind = "response"
    /\ lg_answer.status = 200
    /\ lg_answer.wellformed
    /\ lg_answer.fault = "none"
    /\ lg_answer.result # "absent"
    /\ lg_answer.sid \in {"sf", "plain"}

\* C16: every failing outcome of login is a SalesforceAuthError (a network
\* error of the POST, a status other than 200, a 200 body that is not
\* well-formed XML, holds a SOAP Fault or has no result element), and a
\* session is built only from a fault-free 200 whose result holds a
\* non-empty sessionId.
C16_FailuresAreAuthErrors ==
    /\ lg_pc = "raised" => lg_error.type = AUTH_ERROR
    /\ (lg_answer.kind # "none" /\ ~C16_GoodAnswer) => lg_pc = "raised"
    /\ lg_pc \in {"discover", "returned"} =>
        /\ C16_GoodAnswer
        /\ lg_session.session_id = LoginText("sessionId")
        /\ lg_error = NoError

\* a 200 whose body holds a SOAP Fault beside a complete result was
\* rejected with the fault
C16_Witness ==
    /\ lg_answer.kind = "response"
    /\ lg_answer.status = 200
    /\ lg_answer.fault = "faultstring"
    /\ lg_answer.result = "sf"
    /\ lg_answer.sid = "sf"
    /\ lg_pc = "raised"
    /\ lg_error = AuthError("Login failed: <fault>", LoginText("faultstring"))

\* the discovery answer is a 200 with a JSON list whose last entry is an
\* object with a version string
C17_YieldsVersion(answer) ==
    /\ answer.kind = "response"
    /\ answer.status = 200
    /\ answer.json
    /\ answer.body.type = "list"
    /\ answer.body.items # <<>>
    /\ Last(answer.body.items).type = "object"
    /\ HasKey(Last(answer.body.items), "version")
    /\ Last(answer.body.items).fields["version"].type = "string"

\* C17: once the login response has given a session id, login returns a
\* session whatever the version-discovery request produces, and when that
\* request gives no version the session's api_version is the one fallback
\* version string.
C17_DiscoveryNeverAborts ==
    /\ lg_gets # <<>> => lg_pc = "returned"
    /\ \A i \in 1..Len(lg_gets) :
        ~C17_YieldsVersion(lg_gets[i])
            => lg_session.api_version = FALLBACK_API_VERSION

\* the domain ends with '.salesforce.com'
C18_HasSuffix(domain) ==
    \E k \in 0..Len(domain) :
        domain = SubSeq(domain, 1, k) \o SALESFORCE_SUFFIX

\* C18: after domain resolution the base URL of 'login' and of 'test' is
\* https://{alias}.salesforce.com; for any other domain it is 'https://'
\* followed by the domain, followed by '.salesforce.com' exactly when the
\* domain does not already end with it.
C18_DomainResolution ==
    lg_pc \notin {"idle", "start"} =>
        /\ lg_domain = LOGIN_ALIAS =>
            lg_url = <<"h", "t", "t", "p", "s", ":", "/", "/",
                       "l", "o", "g", "i", "n",
                       ".", "s", "a", "l", "e", "s", "f", "o", "r", "c", "e",
                       ".", "c", "o", "m">>
        /\ lg_domain = TEST_ALIAS =>
            lg_url = <<"h", "t", "t", "p", "s", ":", "/", "/",
                       "t", "e", "s", "t",
                       ".", "s", "a", "l", "e", "s", "f", "o", "r", "c", "e",
                       ".", "c", "o", "m">>
        /\ lg_domain \notin {LOGIN_ALIAS, TEST_ALIAS} =>
            /\ SubSeq(lg_url, 1, Len(HTTPS_PREFIX)) = HTTPS_PREFIX
            /\ LET rest == SubSeq(lg_url, Len(HTTPS_PREFIX) + 1, Len(lg_url))
               IN IF C18_HasSuffix(lg_domain)
                  THEN rest = lg_domain
                  ELSE rest = lg_domain \o SALESFORCE_SUFFIX

\* a custom domain that already ends with the suffix was resolved without
\* a second suffix
C18_Witness ==
    /\ lg_pc \notin {"idle", "start"}
    /\ lg_domain = CUSTOM_HOST \o SALESFORCE_SUFFIX
    /\ lg_url = HTTPS_PREFIX \o CUSTOM_HOST \o SALESFORCE_SUFFIX

\* the value list_reports is to return for a parsed body
C19_Expected(body) ==
    CASE body.type = "list" -> body
      [] body.type = "object" /\ "reports" \in DOMAIN body.fields
            -> body.fields["reports"]
      [] body.type = "object" /\ "reports" \notin DOMAIN body.fields
         /\ "records" \in DOMAIN body.fields
            -> body.fields["records"]
      [] OTHER -> JList(<<>>)

\* C19: for a listing answered 200 with a JSON body, list_reports returns
\* the body when it is a list, the value under 'reports', else the one under
\* 'records', when it is an object, and an empty list when the object has
\* neither key or the body is any other JSON value; it never raises for the
\* body's shape.
C19_ShapeTolerance ==
    (ls_answer.kind = "response" /\ ls_answer.json) =>
        /\ ls_pc = "returned"
        /\ ls_error = "none"
        /\ ls_result = C19_Expected(ls_answer.body)

\* an object with both keys gave the value under 'reports'
C19_Witness ==
    /\ ls_pc = "returned"
    /\ ls_answer.body.type = "object"
    /\ HasKey(ls_answer.body, "reports")
    /\ HasKey(ls_answer.body, "records")
    /\ ls_answer.body.fields["records"] # ls_answer.body.fields["reports"]
    /\ ls_answer.body.fields["reports"].type = "list"
    /\ ls_result = ls_answer.body.fields["reports"]
    /\ ls_result.items # <<>>

\* a folder named Automated Process, System or Hidden, or whose name starts
\* with two underscores
C20_Noise(f) ==
    /\ f.has_name
    /\ \/ f.name = <<"Automated Process">>
       \/ f.name = <<"System">>
       \/ f.name = <<"Hidden">>
       \/ (Len(f.name) >= 2 /\ f.name[1] = "_" /\ f.name[2] = "_")

\* C20: what list_report_folders returns is the org's report folders, in
\* order, without the system/noise folders: no folder named Automated
\* Process, System or Hidden, or starting with a double underscore, is in it.
C20_NoNoiseFolders ==
    fd_pc \in {"emitted", "shown"} =>
        /\ \A i \in 1..Len(fd_listed) : ~C20_Noise(fd_listed[i])
        /\ fd_listed = SelectSeq(fd_org, LAMBDA f : ~C20_Noise(f))

\* an org with a double-underscore folder and a named folder was listed
C20_Witness ==
    /\ fd_pc = "emitted"
    /\ Len(fd_org) = 2
    /\ C20_Noise(fd_org[1])
    /\ fd_org[1].name \notin SYSTEM_FOLDER_NAMES
    /\ ~C20_Noise(fd_org[2])
    /\ fd_listed = <<fd_org[2]>>

\* the first token of b that is not whitespace is an HTML doctype or tag
C23_IsHtml(b) ==
    \E i \in 1..Len(b) :
        /\ b[i] \in {"<!DOCTYPE", "<html"}
        /\ \A j \in 1..(i - 1) : b[j] \in {" ", "\n"}

\* the failure an HTML body is to give: session expired before access
\* denied before generic
C23_Kind(b) ==
    IF \E i \in 1..Len(b) : b[i] \in {"login.salesforce.com", "ec=302"}
    THEN "Session expired or invalid. Please re-login."
    ELSE IF \E i \in 1..Len(b) : b[i] = "You do not have access"
         THEN "Access denied to this report."
         ELSE "Received HTML instead of CSV. Report may not be exportable."

\* C23: the CSV export of a body that, trimmed, starts with an HTML doctype
\* or html tag always fails; the failure is session expired if the body
\* holds a login-redirect marker, else access denied if it holds the
\* access-denied phrase, else generic HTML-not-CSV, so a body with both
\* markers is session expired.
C23_HtmlPriority ==
    \A i \in 1..Len(engine_log) :
        LET e == engine_log[i]
        IN (e.received.kind = "response" /\ C23_IsHtml(e.received.body)) =>
              /\ ~e.returned.ok
              /\ e.returned.error = C23_Kind(e.received.body)
              /\ ~e.ok
              /\ e.error = C23_Kind(e.received.body)

\* C23 witness: a body of whitespace, an html tag, the access-denied phrase
\* and a login-redirect marker failed as session expired.
C23_Witness ==
    /\ Len(engine_log) = 1
    /\ engine_log[1].received.body =
         <<"<html", "You do not have access", "ec=302">>
    /\ engine_log[1].returned.error = "Session expired or invalid. Please re-login."
    /\ Len(failed) = 1

\* a body that is empty or all whitespace
C24_Empty(b) == \A i \in 1..Len(b) : b[i] \in {" ", "\n"}

\* a body whose first line holds 'Error' and that is under 500 characters
C24_Inline(b) ==
    /\ \E i \in 1..Len(b) :
          b[i] = "Error" /\ \A j \in 1..(i - 1) : b[j] # "\n"
    /\ BodyLen(b) < 500

\* C24: export_report_csv itself fails, returning no text, for a body that
\* is not HTML and is empty or whitespace-only (kind empty) and for a body
\* that is not HTML and whose first line holds 'Error' while the body is
\* under 500 characters (kind inline), the checks made in the order HTML,
\* empty, inline.
C24_EngineFailsOnEmptyAndInline ==
    \A i \in 1..Len(engine_log) :
        LET e == engine_log[i]
            b == e.received.body
        IN (e.received.kind = "response" /\ ~C23_IsHtml(b)
            /\ (C24_Empty(b) \/ C24_Inline(b))) =>
              /\ ~e.returned.ok
              /\ e.returned.error = IF C24_Empty(b)
                                    THEN "Empty response received"
                                    ELSE "Salesforce error"

\* a body that is not HTML, not empty and not an inline error
C25_Accepted(b) == ~C23_IsHtml(b) /\ ~C24_Empty(b) /\ ~C24_Inline(b)

\* C25: a body that is not HTML, not empty and not an inline error is
\* accepted verbatim: export_report_csv returns exactly the received text
\* and the file written for the report holds exactly that text, also when
\* the body has 500 or more characters and 'Error' in its first line.
C25_AcceptedVerbatim ==
    \A i \in 1..Len(engine_log) :
        LET e == engine_log[i]
            b == e.received.body
        IN (e.received.kind = "response" /\ C25_Accepted(b)) =>
              /\ e.returned.ok
              /\ e.returned.text = b
              /\ e.ok
              /\ assigned[i] \in DOMAIN tmp_files =>
                    tmp_files[assigned[i]] = [kind |-> "csv", text |-> b]

\* the positions of the steps log at which the callback was called
C26_Calls == {k \in 1..Len(steps) : steps[k][1] \in {"callback", "callback raised"}}

\* C26: with a progress callback set and total > 0, the callback is called
\* exactly once after each report, failed or not, with (i, total): the
\* calls carry the counts 1..completed in order, each comes right after
\* that report's file was written, and a run that reached packaging made
\* exactly total calls.
C26_ProgressPerReport ==
    (has_callback /\ total > 0) =>
        /\ progress_calls = [i \in 1..completed |-> <<i, total>>]
        /\ Cardinality(C26_Calls) = completed
        /\ \A k \in C26_Calls :
              k > 1 /\ steps[k - 1] = <<"write_text", steps[k][2]>>
        /\ pc \in {"packaging", "cleanup", "done"} /\ pending.kind # "exception"
              => Len(progress_calls) = total

\* C26 witness: a returned run of three reports, one succeeded and one
\* failed among them, with three calls.
C26_Witness ==
    /\ has_callback
    /\ outcome.kind = "result"
    /\ total = 3
    /\ outcome.failed # <<>>
    /\ outcome.successful # <<>>
    /\ progress_calls = <<<<1, 3>>, <<2, 3>>, <<3, 3>>>>

\* the k-th smallest member of a set of numbers
C27_Nth(S, k) == CHOOSE i \in S : Cardinality({j \in S : j <= i}) = k

\* the failure records and the successful names the engine's answers make,
\* in report order: what a run whose callback never raises returns
C27_Failed ==
    LET bad == {i \in 1..Len(engine_log) : ~engine_log[i].ok}
    IN [k \in 1..Cardinality(bad) |->
          [id |-> reports[C27_Nth(bad, k)].id,
           name |-> ReportName(reports[C27_Nth(bad, k)]),
           type |-> reports[C27_Nth(bad, k)].reportFormat,
           error |-> engine_log[C27_Nth(bad, k)].error]]

C27_Successful ==
    LET good == {i \in 1..Len(engine_log) : engine_log[i].ok}
    IN [k \in 1..Cardinality(good) |-> ReportName(reports[C27_Nth(good, k)])]

\* C27: an exception raised by the progress callback is swallowed: whatever
\* calls raise, no run ends with the callback's exception, the loop goes on
\* to the next report, and a returned run has processed every report and
\* returns the result that the engine's answers alone determine.
C27_CallbackFailureSwallowed ==
    /\ pending.kind = "exception" => pending.error \in EscalatingErrors
    /\ pc = "exporting" => completed < total
    /\ pending.kind = "result" =>
          /\ engine_calls = total
          /\ completed = total
          /\ pending = ResultOutcome(total, C27_Failed, C27_Successful)

\* C27 witness: a returned run of three reports whose callback raised at
\* the first and the third call.
C27_Witness ==
    /\ outcome.kind = "result"
    /\ total = 3
    /\ callback_raises = {1, 3}
    /\ steps[2] = <<"callback raised", 1>>
    /\ Len(outcome.successful) + Len(outcome.failed) = 3

\* the positions of the steps log at which the run slept
C28_Sleeps == {k \in 1..Len(steps) : steps[k][1] = "sleep"}

\* C28: with a positive delay and total >= 1 the delay is applied exactly
\* total - 1 times, once after each report but the last: never before the
\* first report and never between the last report and packaging; with a
\* delay of 0 it is never applied.
C28_DelayBetweenReports ==
    /\ delay_sleeps = Cardinality(C28_Sleeps)
    /\ delay = 0 => delay_sleeps = 0
    /\ \A k \in C28_Sleeps :
          /\ k > 1
          /\ steps[k][2] < total
          /\ \A j \in C28_Sleeps : steps[j][2] = steps[k][2] => j = k
    /\ (delay > 0 /\ total >= 1 /\ pc \in {"packaging", "cleanup", "done"}
        /\ pending.kind # "exception") => delay_sleeps = total - 1

\* C28 witness: a returned run of three reports with a positive delay that
\* slept after the first and the second report.
C28_Witness ==
    /\ outcome.kind = "result"
    /\ total = 3
    /\ delay > 0
    /\ delay_sleeps = 2
    /\ {steps[k][2] : k \in C28_Sleeps} = {1, 2}

\* C29: packaging with total > 0: the ZIP holds every file of the working
\* directory, in lexicographic order of the filenames, followed by
\* _EXPORT_SUMMARY.txt, so it has exactly total + 1 entries; the summary's
\* counts are total, len(successful) and len(failed), and it lists each
\* failed report (name, type, id, error) once, in failure order.
C29_Packaging ==
    (pc = "cleanup" /\ pending.kind = "result" /\ total > 0) =>
        LET n == Len(zip_entries)
        IN /\ n = total + 1
           /\ zip_entries[n] = SUMMARY_NAME
           /\ {zip_entries[i] : i \in 1..(n - 1)} = DOMAIN tmp_files
           /\ \A i, j \in 1..(n - 1) :
                 i < j => StrLess(zip_entries[i], zip_entries[j])
           /\ zip_summary.total = total
           /\ zip_summary.n_successful = Len(successful)
           /\ zip_summary.n_failed = Len(failed)
           /\ zip_summary.failures = failed

\* the errors the escalation policy lets leave a run
C30_Escalating == {"listing failed", "zip failed"}

\* C30: a failure of the catalog listing or of the ZIP assembly reaches the
\* caller as an exception and no result is returned, and every other run
\* ends with a ZIP at the destination and a result, however many reports
\* failed.
C30_EscalationPolicy ==
    pc = "done" =>
        \/ /\ outcome.kind = "exception"
           /\ outcome.error \in C30_Escalating
        \/ /\ outcome.kind = "result"
           /\ zip_file = "complete"

\* the positions in the catalog of the reports of the scope's folder
C21_InFolder == {i \in 1..Len(catalog) : catalog[i].folderId = scope.folder_id}

\* C21: export-by-folder with folder id X returns a result whose ZIP holds
\* files only for the catalog's reports of folder X: total is the number of
\* such reports, every report worked on is one of them, and every file of
\* the ZIP but the summary or the placeholder is the file of one of them.
C21_FolderOnly ==
    (scope.by = "folder" /\ pending.kind = "result") =>
        /\ pending.total = Cardinality(C21_InFolder)
        /\ Len(reports) = Cardinality(C21_InFolder)
        /\ engine_calls = Cardinality(C21_InFolder)
        /\ \A i \in 1..Len(reports) : reports[i].folderId = scope.folder_id
        /\ {reports[i].id : i \in 1..Len(reports)} =
              {catalog[i].id : i \in C21_InFolder}
        /\ \A k \in 1..Len(zip_entries) :
              \/ zip_entries[k] \in {SUMMARY_NAME, README_NAME}
              \/ \E i \in 1..Len(reports) : zip_entries[k] = assigned[i]

\* C21 witness: of three reports in the folders X, Y, X, export-by-folder
\* X returned a result for the first and the third.
C21_Witness ==
    /\ scope.by = "folder"
    /\ scope.folder_id = "X"
    /\ outcome.kind = "result"
    /\ Len(catalog) = 3
    /\ catalog[1].folderId = "X"
    /\ catalog[2].folderId = "Y"
    /\ catalog[3].folderId = "X"
    /\ outcome.total = 2
    /\ Len(zip_entries) = 3

\* the positions in the catalog of the reports whose id is selected
C22_Selected == {i \in 1..Len(catalog) : catalog[i].id \in scope.report_ids}

C32_Budget == IF max_retries > 0 THEN max_retries ELSE 0

C32_Over == rr_pc \in {"returned", "raised"}

\* C32: retry_request issues at most max_retries GET requests whatever the
\* responses and exceptions are, and always ends: it returns, and then the
\* last response had status 200, or it raises; with max_retries <= 0 it
\* issues no request and raises the synthesized failure
C32_BoundedAndTerminates ==
    /\ [](rr_pc # "idle" => Len(rr_requests) <= C32_Budget)
    /\ <>C32_Over
    /\ [](C32_Over =>
            /\ rr_result.kind \in {"returned", "raised",
                                   "raised_after_retries"}
            /\ (rr_result.kind = "returned")
                  = (rr_requests # <<>> /\ Last(rr_requests).status = 200))
    /\ []((C32_Over /\ max_retries <= 0) =>
            /\ rr_requests = <<>>
            /\ rr_result = [kind |-> "raised_after_retries",
                            error |-> "None"])

\* every attempt of a budget of two or more was used and the call raised
C32_Witness ==
    /\ rr_pc = "raised"
    /\ max_retries >= 2
    /\ Len(rr_requests) = max_retries

\* C33: retry_request never waits without a following attempt: once the call
\* is over every wait was followed by another GET, and the number of waits
\* is at most max_retries - 1, also when the last attempt returned a
\* retryable status
C33_EveryWaitFollowed ==
    /\ rr_pc # "idle" =>
           Len(rr_sleeps) <= IF max_retries > 0 THEN max_retries - 1 ELSE 0
    /\ C32_Over =>
           \A w \in 1..Len(rr_sleeps) :
               \E i \in 1..Len(rr_requests) :
                   rr_requests[i].sleeps_before >= w

\* C34: a wait taken for a retryable status without a Retry-After header, or
\* with one that is no integer, never exceeds 60 seconds, whatever timeouts,
\* connection errors, Retry-After values and retryable statuses came earlier
\* in the same call
C34_DefaultWaitCapped ==
    \A i \in 1..Len(rr_requests) :
        LET seen == rr_requests[i]
            parsed == ParseInt(seen.retry_after)
        IN (/\ seen.what = "status"
            /\ seen.status \in RetryableStatuses
            /\ (seen.retry_after = <<>> \/ ~parsed.ok)
            /\ C11_Waited(i))
           => C11_Wait(i) <= BACKOFF_CAP

\* the run is raising, or has raised, the failure of the catalog listing
C35_ListingFailed ==
    \/ pending = RaisedOutcome("listing failed")
    \/ outcome = RaisedOutcome("listing failed")

\* C35: when the catalog listing fails the run leaves the destination ZIP
\* untouched: the file is neither created nor written, no report is named,
\* requested or written, and the progress callback is never invoked
C35_ZipUntouchedOnListingFailure ==
    C35_ListingFailed =>
        /\ zip_file = "absent"
        /\ zip_entries = <<>>
        /\ zip_summary = NoSummary
        /\ engine_calls = 0
        /\ assigned = <<>>
        /\ tmp_files = <<>>
        /\ progress_calls = <<>>
        /\ steps = <<>>

\* a run with a progress callback and a catalog of three reports that ended
\* with the listing failure
C35_Witness ==
    /\ pc = "done"
    /\ outcome = RaisedOutcome("listing failed")
    /\ has_callback
    /\ Len(catalog) = 3

\* the calls of the export engine so far that were accepted, and refused
C31_Good == {i \in 1..Len(engine_log) : engine_log[i].ok}

C31_Bad == {i \in 1..Len(engine_log) : ~engine_log[i].ok}

\* the positions of the steps log at which a report's file was written
C31_Writes == {k \in 1..Len(steps) : steps[k][1] = "write_text"}

\* every report begun has its outcome recorded, the reports begun are the
\* first of the catalog, and the two result lists keep the catalog's order
C31_InOrder ==
    /\ engine_calls = Len(engine_log)
    /\ engine_calls <= Len(catalog)
    /\ Len(successful) + Len(failed) = engine_calls
    /\ Len(assigned) = engine_calls
    /\ completed <= engine_calls /\ engine_calls <= completed + 1
    /\ pc = "exporting" => completed = engine_calls
    /\ Len(successful) = Cardinality(C31_Good)
    /\ Len(failed) = Cardinality(C31_Bad)
    /\ \A k \in 1..Len(successful) :
          successful[k] = ReportName(catalog[C27_Nth(C31_Good, k)])
    /\ \A k \in 1..Len(failed) :
          failed[k].id = catalog[C27_Nth(C31_Bad, k)].id
    /\ \A k \in 1..Len(steps) :
          /\ steps[k][2] <= engine_calls
          /\ k > 1 => steps[k - 1][2] <= steps[k][2]
    /\ \A k \in 1..Cardinality(C31_Writes) :
          steps[C27_Nth(C31_Writes, k)][2] = k

\* one step begins at most one report, only while the loop runs, and records
\* that report's outcome before the step is over
C31_OneAtATime ==
    /\ engine_calls' \in {engine_calls, engine_calls + 1}
    /\ engine_calls' = engine_calls + 1 =>
          /\ pc = "exporting"
          /\ Len(successful') + Len(failed')
                = Len(successful) + Len(failed) + 1
          /\ SubSeq(successful', 1, Len(successful)) = successful
          /\ SubSeq(failed', 1, Len(failed)) = failed
    /\ engine_calls' = engine_calls =>
          (pc # "listing" => successful' = successful /\ failed' = failed)

\* C31: the orchestrator is strictly sequential: reports are exported one at
\* a time in catalog order, the outcome of the i-th report is recorded
\* before the export of the (i+1)-th begins, and the successful and the
\* failed lists are each in catalog order
C31_StrictlySequential == []C31_InOrder /\ [][C31_OneAtATime]_vars

\* a returned run of three reports: the second failed, the others did not
C31_Witness ==
    /\ outcome.kind = "result"
    /\ Len(catalog) = 3
    /\ Len(outcome.successful) = 2
    /\ Len(outcome.failed) = 1
    /\ outcome.failed[1].id = ReportId(2)
    /\ steps[1] = <<"write_text", 1>>

\* the signals of export threads that wait in the queue
C36_ExportSignals ==
    {i \in 1..Len(signal_queue) :
        signal_queue[i].signal \in {"finished", "error"}}

\* C36: at most one export thread runs at any time: whatever the order of
\* the clicks and of the login, folder, report and export signals, the
\* Start Export button is never enabled while _export_running is true, and
\* _export_running is true exactly from on_start until the one thread's
\* finished or error has been handled, so on_start starts no second export
\* before that
C36_OneExportAtATime ==
    /\ export_running => ~start_btn
    /\ Len(export_threads) <= 1
    /\ Len(export_threads) + Cardinality(C36_ExportSignals)
          = IF export_running THEN 1 ELSE 0

\* an export runs, and a login signal that arrived after on_start has
\* enabled the inputs again; Start Export stays disabled
C36_Witness ==
    /\ export_running
    /\ Len(export_threads) = 1
    /\ login_btn
    /\ output_zip # NONE
    /\ ~start_btn

\* what one step does to the export threads and their signals: a thread
\* that ends adds exactly one finished or error to the queue, nothing else
\* adds one, and the handler that takes one leaves _export_running false
\* and the inputs enabled
C37_Step ==
    LET before == Cardinality(C36_ExportSignals)
        after == Cardinality({i \in 1..Len(signal_queue') :
                     signal_queue'[i].signal \in {"finished", "error"}})
    IN /\ Len(export_threads') < Len(export_threads) =>
             /\ Len(export_threads') = Len(export_threads) - 1
             /\ after = before + 1
       /\ after > before => Len(export_threads') < Len(export_threads)
       /\ after < before =>
             /\ after = before - 1
             /\ ~export_running'
             /\ login_btn'
             /\ start_btn' = can_export(session_info, output_zip, FALSE,
                                        current_tab, folder_combo,
                                        selected_reports)

\* C37: every export thread the GUI starts eventually emits exactly one of
\* finished and error, whether the exporter's call returns or raises; once
\* that signal has been handled _export_running is false and the inputs
\* are enabled again
C37_ExportAlwaysReported ==
    /\ [][C37_Step]_vars
    /\ (export_threads # <<>>) ~>
          (export_threads = <<>> /\ ~export_running /\ login_btn)

\* the exporter's call raised: the thread has ended, its error signal waits
\* at the head of the queue
C37_Witness ==
    /\ export_running
    /\ export_threads = <<>>
    /\ signal_queue # <<>>
    /\ Head(signal_queue).signal = "error"

\* C38: selected_reports only ever holds ids of the report list currently
\* loaded, whatever the order of checkbox toggles, Select All, Clear All,
\* Refresh and the reports_loaded signal
C38_SelectionWithinLoaded == selected_reports \subseteq available_reports

\* on_start hands an export thread only ids of the list currently loaded
C38_StartWithinLoaded ==
    [][(Len(export_threads') > Len(export_threads) /\ current_tab = 1)
          => selected_reports \subseteq available_reports]_vars

====
